---------------------------- MODULE Spec2Model ----------------------------
(***************************************************************************)
(* Model of scripts/translate.js of generatywnie.com: the offline          *)
(* translation pipeline (glossary, per-key and batch translation, the      *)
(* 17-check validator, the retry loop, semantic review and fixes, quote    *)
(* normalization, key reordering, persistence and the run log).            *)
(*                                                                         *)
(* A JavaScript string is a sequence of UTF-16 code units.  An ASCII code  *)
(* unit is written as the one-character string it is ("a", "<"); any other *)
(* code unit is written by its code point ("U+2192").  s.length is Len(s).  *)
(***************************************************************************)
EXTENDS Integers, Sequences, FiniteSets, TLC

\* ------------------------------------------------------------ strings

\* the code units of an ASCII literal
Chars(lit) == [i \in 1..Len(lit) |-> SubSeq(lit, i, i)]

UPPER == Chars("ABCDEFGHIJKLMNOPQRSTUVWXYZ")
LOWER == Chars("abcdefghijklmnopqrstuvwxyz")
DIGIT == Chars("0123456789")

UpperSet == {UPPER[i] : i \in 1..26}
LowerSet == {LOWER[i] : i \in 1..26}
DigitSet == {DIGIT[i] : i \in 1..10}

\* String.prototype.toLowerCase on one code unit (ASCII letters; the
\* regular expressions of the script fold case on ASCII only)
LowerOf == [c \in UpperSet |-> LOWER[CHOOSE i \in 1..26 : UPPER[i] = c]]

ToLower(c) == IF c \in UpperSet THEN LowerOf[c] ELSE c

toLowerCase(s) == [i \in 1..Len(s) |-> ToLower(s[i])]

\* the white space of \s and of String.prototype.trim
WhiteSpace ==
  {" ", "\t", "\n", "\r", "U+000B", "U+000C", "U+00A0", "U+1680", "U+2000",
   "U+2001", "U+2002", "U+2003", "U+2004", "U+2005", "U+2006", "U+2007",
   "U+2008", "U+2009", "U+200A", "U+2028", "U+2029", "U+202F", "U+205F",
   "U+3000", "U+FEFF"}

\* s.substring(from0, to0) with 0-based, end-exclusive indexes
substring(s, from0, to0) ==
  LET a == IF from0 < 0 THEN 0 ELSE IF from0 > Len(s) THEN Len(s) ELSE from0
      b == IF to0 < 0 THEN 0 ELSE IF to0 > Len(s) THEN Len(s) ELSE to0
      lo == IF a < b THEN a ELSE b
      hi == IF a < b THEN b ELSE a
  IN  SubSeq(s, lo + 1, hi)

\* whether sub occurs in s at 1-based position i
OccursAt(s, sub, i) ==
  /\ i >= 1
  /\ i + Len(sub) - 1 <= Len(s)
  /\ \A j \in 1..Len(sub) : s[i + j - 1] = sub[j]

\* s.includes(sub): sub occurs somewhere, at a position that holds its first
\* code unit
includes(s, sub) ==
  \/ sub = <<>>
  \/ \E i \in {j \in 1..(Len(s) - Len(sub) + 1) : s[j] = sub[1]} : OccursAt(s, sub, i)

\* s.startsWith(sub), s.endsWith(sub)
startsWith(s, sub) == OccursAt(s, sub, 1)
endsWith(s, sub) == Len(sub) <= Len(s) /\ OccursAt(s, sub, Len(s) - Len(sub) + 1)

RECURSIVE TrimLeft(_)
TrimLeft(s) ==
  IF s # <<>> /\ s[1] \in WhiteSpace THEN TrimLeft(Tail(s)) ELSE s

RECURSIVE TrimRight(_)
TrimRight(s) ==
  IF s # <<>> /\ s[Len(s)] \in WhiteSpace
  THEN TrimRight(SubSeq(s, 1, Len(s) - 1)) ELSE s

\* s.trim()
trim(s) == TrimRight(TrimLeft(s))

\* Number.prototype.toString for a natural number
RECURSIVE NatToStr(_)
NatToStr(n) ==
  IF n < 10 THEN <<DIGIT[n + 1]>>
  ELSE NatToStr(n \div 10) \o <<DIGIT[(n % 10) + 1]>>

\* strs.join(sep)
RECURSIVE join(_, _)
join(strs, sep) ==
  IF strs = <<>> THEN <<>>
  ELSE IF Len(strs) = 1 THEN strs[1]
  ELSE strs[1] \o sep \o join(Tail(strs), sep)

\* ------------------------------------------------- regular expressions
\* A pattern is a sequence of atoms.  An atom matches code units of a class
\* (cls; any code unit outside it when neg), once ("1"), optionally ("?"),
\* any number of times ("*") or at least once ("+").  With ci the subject is
\* case-folded, and a pattern's literals are written in lower case.

Atom(q, neg, cls) == [q |-> q, neg |-> neg, cls |-> cls]

\* the atoms of a literal
Lit(lit) == [i \in 1..Len(lit) |-> Atom("1", FALSE, {SubSeq(lit, i, i)})]

WsStar == <<Atom("*", FALSE, WhiteSpace)>>

AtomOk(a, c, ci) ==
  LET cc == IF ci THEN ToLower(c) ELSE c
  IN  (cc \in a.cls) # a.neg

\* whether pat[p..] matches a prefix of s[i..]
RECURSIVE MatchFrom(_, _, _, _, _)
MatchFrom(pat, p, s, i, ci) ==
  IF p > Len(pat) THEN TRUE
  ELSE LET a == pat[p]
           here == i <= Len(s) /\ AtomOk(a, s[i], ci)
       IN  CASE a.q = "1" -> here /\ MatchFrom(pat, p + 1, s, i + 1, ci)
             [] a.q = "?" -> \/ (here /\ MatchFrom(pat, p + 1, s, i + 1, ci))
                             \/ MatchFrom(pat, p + 1, s, i, ci)
             [] a.q = "*" -> \/ MatchFrom(pat, p + 1, s, i, ci)
                             \/ (here /\ MatchFrom(pat, p, s, i + 1, ci))
             [] a.q = "+" -> here /\ (\/ MatchFrom(pat, p + 1, s, i + 1, ci)
                                      \/ MatchFrom(pat, p, s, i + 1, ci))

\* pattern.test(s) with lastIndex = 0
RegexTest(pat, s, ci) == \E i \in 1..(Len(s) + 1) : MatchFrom(pat, 1, s, i, ci)

\* the code units of s, and the same case-folded
Units(s) == {s[i] : i \in 1..Len(s)}
Folded(s) == {ToLower(s[i]) : i \in 1..Len(s)}

\* the literals every match of pat holds: its atoms of one code unit that
\* cannot be left out
Mandatory(pat) ==
  UNION {pat[p].cls : p \in {q \in 1..Len(pat) : /\ pat[q].q \in {"1", "+"}
                                                    /\ ~pat[q].neg
                                                    /\ Cardinality(pat[q].cls) = 1}}

\* pattern.test(s) given need = Mandatory(pat) and units = Units(s), or
\* Folded(s) under ci: there is no match unless s holds every such literal
RegexTestIn(pat, s, ci, need, units) ==
  /\ need \subseteq units
  /\ RegexTest(pat, s, ci)

\* s.includes(sub) given units = Units(s)
includesIn(s, sub, units) == sub # <<>> /\ sub[1] \in units /\ includes(s, sub)

\* flatten a sequence of sequences
RECURSIVE Flatten(_)
Flatten(seqs) ==
  IF seqs = <<>> THEN <<>> ELSE seqs[1] \o Flatten(Tail(seqs))

\* the elements of s in first-occurrence order, each once ([...new Set(s)])
RECURSIVE Unique(_)
Unique(s) ==
  IF s = <<>> THEN <<>>
  ELSE LET init == Unique(SubSeq(s, 1, Len(s) - 1))
           last == s[Len(s)]
       IN  IF \E i \in 1..Len(init) : init[i] = last THEN init
           ELSE Append(init, last)

\* name.split(/\s+/)
RECURSIVE SplitWs(_, _)
SplitWs(s, cur) ==
  IF s = <<>> THEN <<cur>>
  ELSE IF s[1] \in WhiteSpace
       THEN <<cur>> \o SplitWs(TrimLeft(s), <<>>)
       ELSE SplitWs(Tail(s), Append(cur, s[1]))

\* ------------------------------------------------------------- config

MAX_ROUNDS == 3
MAX_SEMANTIC_ROUNDS == 3

\* the language codes of LANG_NAMES
LANG_NAMES ==
  {"pl", "de", "fr", "es", "pt", "it", "ja", "zh", "ko", "uk", "cs", "nl",
   "sv", "da", "fi", "nb", "ro", "hu", "tr", "ar", "hi", "ru"}

PROTECTED_NAMES ==
  << Chars("Szymon P. Pepli") \o <<"U+0144">> \o Chars("ski"),
     Chars("Shoshana Zuboff"),
     Chars("Gilbert Simondon"),
     Chars("N. Katherine Hayles"),
     Chars("Byung-Chul Han"),
     Chars("Kyle Chayka"),
     Chars("Douglas Rushkoff"),
     Chars("James Williams"),
     Chars("Kasparov"),
     Chars("Tegmark") >>

PROTECTED_TITLES ==
  << Chars("Generatywnie"),
     Chars("The Age of Surveillance Capitalism"),
     Chars("Du mode d'existence des objets techniques"),
     Chars("How We Became Posthuman") >>

CJK_LANGS == {"ja", "zh", "ko", "zh-TW", "zh-CN", "zh-HK"}

ALLOWED_TAGS == <<"strong", "cite", "em">>

ARROW == "U+2192"

AlphaSet == UpperSet \cup LowerSet
AlnumSet == AlphaSet \cup DigitSet
WordSet == AlnumSet \cup {"_"}

\* [pattern, case-insensitive, label], with the pattern's mandatory literals
Dangerous(pat, ci, label) ==
  [pat |-> pat, ci |-> ci, need |-> Mandatory(pat), label |-> Chars(label)]

DANGEROUS_PATTERNS ==
  << Dangerous(Lit("javascript") \o WsStar \o Lit(":"), TRUE, "javascript: URI"),
     Dangerous(Lit("on") \o <<Atom("+", FALSE, LowerSet)>> \o WsStar \o Lit("="),
               TRUE, "inline event handler"),
     Dangerous(Lit("<script"), TRUE, "<script> tag"),
     Dangerous(Lit("</script"), TRUE, "</script> tag"),
     Dangerous(Lit("<iframe"), TRUE, "<iframe> tag"),
     Dangerous(Lit("<object"), TRUE, "<object> tag"),
     Dangerous(Lit("<embed"), TRUE, "<embed> tag"),
     Dangerous(Lit("<link") \o <<Atom("1", FALSE, WhiteSpace \cup {">"})>>,
               TRUE, "<link> tag"),
     Dangerous(Lit("<meta") \o <<Atom("1", FALSE, WhiteSpace \cup {">"})>>,
               TRUE, "<meta> tag"),
     Dangerous(Lit("<svg") \o <<Atom("1", FALSE, WhiteSpace \cup {">"})>>,
               TRUE, "<svg> tag"),
     Dangerous(Lit("<form") \o <<Atom("1", FALSE, WhiteSpace \cup {">"})>>,
               TRUE, "<form> tag"),
     Dangerous(Lit("<input") \o <<Atom("1", FALSE, WhiteSpace \cup {">"})>>,
               TRUE, "<input> tag"),
     Dangerous(Lit("<img") \o <<Atom("1", FALSE, WhiteSpace \cup {">"})>>,
               TRUE, "<img> tag"),
     Dangerous(Lit("data") \o WsStar \o Lit(":") \o WsStar \o Lit("text/html"),
               TRUE, "data:text/html URI"),
     Dangerous(Lit("expression") \o WsStar \o Lit("("), TRUE, "CSS expression()"),
     Dangerous(Lit("url") \o WsStar \o Lit("(") \o WsStar
                 \o <<Atom("?", FALSE, {"'", "\""})>> \o WsStar \o Lit("javascript"),
               TRUE, "CSS url(javascript:)"),
     Dangerous(Lit("<!--"), FALSE, "HTML comment") >>

UNICODE_SUSPICIOUS ==
  {"U+200B", "U+200C", "U+200D", "U+FEFF", "U+00AD", "U+2028", "U+2029",
   "U+202A", "U+202B", "U+202C", "U+202D", "U+202E",
   "U+2066", "U+2067", "U+2068", "U+2069", "U+061C"}

EncodedTagNames ==
  {"script", "iframe", "svg", "object", "embed", "form", "img", "input",
   "link", "meta"}

\* ENCODED_TAG_RE.test(s)
ENCODED_TAG_RE(s) ==
  /\ \E i \in 1..Len(s) : s[i] = "&"
  /\ \E n \in EncodedTagNames :
       RegexTest(Lit("&lt;") \o WsStar \o <<Atom("?", FALSE, {"/"})>> \o WsStar
                   \o Lit(n), s, TRUE)

\* /\\u003c/gi.test(s) || /\\u003e/gi.test(s)
UnicodeEscape(s) ==
  /\ \E i \in 1..Len(s) : s[i] = "\\"
  /\ \/ RegexTest(Lit("\\u003c"), s, TRUE)
     \/ RegexTest(Lit("\\u003e"), s, TRUE)

\* the 1-based index of the first ">" of s at or after i, 0 when there is none
RECURSIVE FirstGt(_, _)
FirstGt(s, i) ==
  IF i > Len(s) THEN 0 ELSE IF s[i] = ">" THEN i ELSE FirstGt(s, i + 1)

\* TAG_RE matched at i: [end |-> index of the closing ">", name |-> group 1],
\* end = 0 when TAG_RE does not match at i
RECURSIVE NameEnd(_, _)
NameEnd(s, j) ==
  IF j <= Len(s) /\ s[j] \in AlnumSet THEN NameEnd(s, j + 1) ELSE j

TagAt(s, i) ==
  LET n0 == IF i + 1 <= Len(s) /\ s[i + 1] = "/" THEN i + 2 ELSE i + 1
      n1 == NameEnd(s, n0)
      gt == FirstGt(s, n1)
      ok == /\ s[i] = "<"
            /\ n0 <= Len(s)
            /\ s[n0] \in AlphaSet
            /\ ~(n1 <= Len(s) /\ s[n1] \in WordSet)
            /\ gt > 0
  IN  IF ok THEN [end |-> gt, name |-> SubSeq(s, n0, n1 - 1)]
      ELSE [end |-> 0, name |-> <<>>]

\* the names captured by the successive TAG_RE.exec(s), from position i
RECURSIVE TagNames(_, _)
TagNames(s, i) ==
  IF i > Len(s) THEN <<>>
  ELSE IF s[i] # "<" THEN TagNames(s, i + 1)
  ELSE LET m == TagAt(s, i)
       IN  IF m.end > 0 THEN <<m.name>> \o TagNames(s, m.end + 1)
           ELSE TagNames(s, i + 1)

\* new RegExp(`<${tag}(\\s[^>]*)?>`) matched at i: the index of its ">", or 0
\* (open is "<" followed by the tag)
OpenTagEnd(s, open, i) ==
  LET j == i + Len(open)
  IN  IF ~OccursAt(s, open, i) \/ j > Len(s) THEN 0
      ELSE IF s[j] = ">" THEN j
      ELSE IF s[j] \in WhiteSpace THEN FirstGt(s, j + 1)
      ELSE 0

\* the matches of the opening-tag pattern found from i on, left to right
RECURSIVE CountOpen(_, _, _)
CountOpen(s, open, i) ==
  IF i > Len(s) THEN 0
  ELSE IF s[i] # "<" THEN CountOpen(s, open, i + 1)
  ELSE LET e == OpenTagEnd(s, open, i)
       IN  IF e > 0 THEN 1 + CountOpen(s, open, e + 1)
           ELSE CountOpen(s, open, i + 1)

\* the matches of the literal lit found from i on, left to right
RECURSIVE CountLit(_, _, _)
CountLit(s, lit, i) ==
  IF i > Len(s) THEN 0
  ELSE IF s[i] # lit[1] THEN CountLit(s, lit, i + 1)
  ELSE IF OccursAt(s, lit, i) THEN 1 + CountLit(s, lit, i + Len(lit))
  ELSE CountLit(s, lit, i + 1)

\* countTag(str, tag): { open, close }
countTag(str, tag) ==
  IF \A i \in 1..Len(str) : str[i] # "<" THEN [open |-> 0, close |-> 0]
  ELSE LET open == <<"<">> \o Chars(tag)
           close == Chars("</") \o Chars(tag) \o <<">">>
       IN  [open |-> IF includes(str, open) THEN CountOpen(str, open, 1) ELSE 0,
            close |-> IF includes(str, close) THEN CountLit(str, close, 1) ELSE 0]

\* ------------------------------------------------- values and objects
\* A JSON value: a string, an array of strings, or anything else (typeof
\* "object": null, a nested object).

Str(chars) == [t |-> "string", v |-> chars]
Arr(items) == [t |-> "array", v |-> items]
Other == [t |-> "object", v |-> <<>>]

\* Array.isArray(x) ? 'array' : typeof x
TypeName(x) == x.t

\* A JavaScript object with string keys: its own properties in insertion
\* order, each [k |-> key, v |-> value].
Keys(o) == [i \in 1..Len(o) |-> o[i].k]
KeySet(o) == {o[i].k : i \in 1..Len(o)}
Has(o, k) == \E i \in 1..Len(o) : o[i].k = k
Get(o, k) == o[CHOOSE i \in 1..Len(o) : o[i].k = k].v

\* o[k] = v
Put(o, k, v) ==
  IF Has(o, k) THEN [i \in 1..Len(o) |-> IF o[i].k = k THEN [k |-> k, v |-> v] ELSE o[i]]
  ELSE Append(o, [k |-> k, v |-> v])

\* delete o[k]
Delete(o, k) == SelectSeq(o, LAMBDA e : e.k # k)

\* Properties every object literal inherits from Object.prototype: the `in`
\* operator finds them although they are no own keys (one stands for all).
ObjectPrototypeKeys == {"toString"}

\* k in o
In(o, k) == Has(o, k) \/ k \in ObjectPrototypeKeys

\* ---------------------------------------------------------- validation

Quoted(chars) == <<"\"">> \o chars \o <<"\"">>

\* the significant words of a protected name and their stems, in loop order
\* faulty variant: no declension is allowed for
StemWholeWord(word) == word

Stem(word) ==
  IF Len(word) <= 5 THEN word
  ELSE substring(word, 0, IF Len(word) - 2 > 4 THEN Len(word) - 2 ELSE 4)

NameWords(name) ==
  SelectSeq(SplitWs(name, <<>>), LAMBDA w : Len(w) >= 3 /\ ~endsWith(w, <<".">>))

\* for each protected name, the stems of its significant words
NameStems ==
  [n \in 1..Len(PROTECTED_NAMES) |->
     LET ws == NameWords(PROTECTED_NAMES[n])
     IN  [j \in 1..Len(ws) |-> Stem(ws[j])]]

\* Math.round(ratio * 100) for ratio = tgtLen / srcLen, srcLen > 0
RoundPercent(tgtLen, srcLen) == (200 * tgtLen + srcLen) \div (2 * srcLen)

\* `${Math.round(ratio * 100)}% of original`
PercentText(tgtLen, srcLen) ==
  IF srcLen = 0 THEN (IF tgtLen = 0 THEN Chars("NaN") ELSE Chars("Infinity"))
  ELSE NatToStr(RoundPercent(tgtLen, srcLen))

\* faulty variant: a text at the minimum itself is too short
RatioBelowOrAt(tgtLen, srcLen, num, den) ==
  srcLen > 0 /\ tgtLen * den <= num * srcLen

\* ratio < num/den and ratio > num/den for ratio = tgtLen / srcLen
\* (0/0 is NaN and compares false; n/0 is Infinity)
RatioBelow(tgtLen, srcLen, num, den) ==
  srcLen > 0 /\ tgtLen * den < num * srcLen
RatioAbove(tgtLen, srcLen, num, den) ==
  IF srcLen = 0 THEN tgtLen > 0 ELSE tgtLen * den > num * srcLen

\* check 5's guard: the loop moves on to the next key after this error
EmptyTranslation(src, tgt) == trim(tgt) = <<>> /\ trim(src) # <<>>

\* checks 6-8 and 10 of validate on one string key
\* faulty variant: the title is looked for without regard to case
TitleKeptAnyCase(tgt, title) == includes(toLowerCase(tgt), toLowerCase(title))

\* check 7b: tgt.includes(title)
TitleKept(tgt, title) == includes(tgt, title)

ContentErrors(key, src, tgt, targetLang) ==
  LET k == Quoted(Chars(key))
      tags == Flatten([i \in 1..Len(ALLOWED_TAGS) |->
                LET tag == ALLOWED_TAGS[i]
                    srcCounts == countTag(src, tag)
                    tgtCounts == countTag(tgt, tag)
                IN  (IF srcCounts.open # tgtCounts.open \/ srcCounts.close # tgtCounts.close
                     THEN <<Chars("HTML tag mismatch on ") \o k \o Chars(": <") \o Chars(tag)
                              \o Chars("> expected ") \o NatToStr(srcCounts.open) \o <<"/">>
                              \o NatToStr(srcCounts.close) \o Chars(" open/close, got ")
                              \o NatToStr(tgtCounts.open) \o <<"/">> \o NatToStr(tgtCounts.close)>>
                     ELSE <<>>)
                    \o
                    (IF tgtCounts.open # tgtCounts.close
                     THEN <<Chars("Unclosed <") \o Chars(tag) \o Chars("> in ") \o k \o Chars(": ")
                              \o NatToStr(tgtCounts.open) \o Chars(" opened, ")
                              \o NatToStr(tgtCounts.close) \o Chars(" closed")>>
                     ELSE <<>>)])
      stems == NameStems
      srcUnits == Units(src)
      names == Flatten([n \in 1..Len(PROTECTED_NAMES) |->
                 IF ~includesIn(src, PROTECTED_NAMES[n], srcUnits) THEN <<>>
                 ELSE Flatten([j \in 1..Len(stems[n]) |->
                        IF includes(tgt, stems[n][j]) THEN <<>>
                        ELSE <<Chars("Protected name missing in ") \o k \o Chars(": ")
                                 \o Quoted(PROTECTED_NAMES[n]) \o Chars(" (stem ")
                                 \o Quoted(stems[n][j]) \o Chars(" not found)")>>])])
      titles == Flatten([i \in 1..Len(PROTECTED_TITLES) |->
                  IF /\ includesIn(src, PROTECTED_TITLES[i], srcUnits)
                     /\ ~TitleKept(tgt, PROTECTED_TITLES[i])
                  THEN <<Chars("Protected title missing in ") \o k \o Chars(": ")
                           \o Quoted(PROTECTED_TITLES[i])>>
                  ELSE <<>>])
      isCJK == targetLang \in CJK_LANGS
      short == IF isCJK THEN RatioBelow(Len(tgt), Len(src), 15, 100)
               ELSE RatioBelow(Len(tgt), Len(src), 4, 10)
      long == IF isCJK THEN RatioAbove(Len(tgt), Len(src), 15, 10)
              ELSE RatioAbove(Len(tgt), Len(src), 25, 10)
      length == (IF short THEN <<Chars("Suspiciously short ") \o k \o Chars(": ")
                                   \o PercentText(Len(tgt), Len(src)) \o Chars("% of original")>>
                 ELSE <<>>)
                \o
                (IF long THEN <<Chars("Suspiciously long ") \o k \o Chars(": ")
                                  \o PercentText(Len(tgt), Len(src)) \o Chars("% of original")>>
                 ELSE <<>>)
      arrow == IF ARROW \in srcUnits /\ ~includes(tgt, <<ARROW>>)
               THEN <<Chars("Arrow symbol ") \o <<ARROW>> \o Chars(" missing in ") \o k>>
               ELSE <<>>
  IN  tags \o names \o titles \o length \o arrow

\* checks 11-15 of validate on one string key
SecurityErrors(key, tgt) ==
  LET k == Quoted(Chars(key))
      units == Units(tgt)
      folded == Folded(tgt)
      patterns == Flatten([i \in 1..Len(DANGEROUS_PATTERNS) |->
                    IF RegexTestIn(DANGEROUS_PATTERNS[i].pat, tgt,
                                   DANGEROUS_PATTERNS[i].ci, DANGEROUS_PATTERNS[i].need,
                                   IF DANGEROUS_PATTERNS[i].ci THEN folded ELSE units)
                    THEN <<Chars("SECURITY: ") \o DANGEROUS_PATTERNS[i].label
                             \o Chars(" in ") \o k>>
                    ELSE <<>>])
      found == TagNames(tgt, 1)
      tags == Flatten([i \in 1..Len(found) |->
                LET tagName == toLowerCase(found[i])
                IN  IF \E j \in 1..Len(ALLOWED_TAGS) : Chars(ALLOWED_TAGS[j]) = tagName
                    THEN <<>>
                    ELSE <<Chars("SECURITY: disallowed <") \o tagName
                             \o Chars("> tag in ") \o k>>])
      encoded == IF ENCODED_TAG_RE(tgt)
                 THEN <<Chars("SECURITY: encoded HTML tag in ") \o k
                          \o Chars(" (entity-escaped <script> etc.)")>>
                 ELSE <<>>
      unicodeMatches == SelectSeq(tgt, LAMBDA c : c \in UNICODE_SUSPICIOUS)
      unicode == IF unicodeMatches # <<>>
                 THEN <<Chars("SECURITY: suspicious unicode in ") \o k \o Chars(": ")
                          \o join([i \in 1..Len(Unique(unicodeMatches)) |->
                                     Chars(Unique(unicodeMatches)[i])], Chars(", "))>>
                 ELSE <<>>
      escape == IF UnicodeEscape(tgt)
                THEN <<Chars("SECURITY: unicode escape sequence in ") \o k
                         \o Chars(" (\\u003c/\\u003e)")>>
                ELSE <<>>
  IN  patterns \o tags \o encoded \o unicode \o escape

\* the source keys the per-string loop of validate works on
StringPairs(translated, source) ==
  SelectSeq(Keys(source),
            LAMBDA k : /\ In(translated, k)
                       /\ Has(translated, k)
                       /\ Get(source, k).t = "string"
                       /\ Get(translated, k).t = "string")

\* check 9: the keys counted as untranslated
UntranslatedKeys(translated, source, targetLang) ==
  SelectSeq(StringPairs(translated, source),
            LAMBDA k : LET src == Get(source, k).v
                           tgt == Get(translated, k).v
                       IN  /\ ~EmptyTranslation(src, tgt)
                           /\ targetLang # "en"
                           /\ tgt = src
                           /\ Len(src) > 30)

\* the errors of the per-string loop for one key (checks 5-15)
StringErrors(key, src, tgt, targetLang) ==
  IF EmptyTranslation(src, tgt)
  THEN <<Chars("Empty translation for ") \o Quoted(Chars(key))>>
  ELSE ContentErrors(key, src, tgt, targetLang) \o SecurityErrors(key, tgt)

\* faulty variant: the aggregate error is raised at 30% already
BulkUntranslatedAtThreshold(untranslatedCount, eligible, targetLang) ==
  /\ targetLang # "en"
  /\ eligible > 0
  /\ 10 * untranslatedCount >= 3 * eligible

\* check 16: untranslatedCount > stringKeys.length * 0.3, for a target other
\* than English and a source that has eligible strings
BulkUntranslated(untranslatedCount, eligible, targetLang) ==
  /\ targetLang # "en"
  /\ eligible > 0
  /\ 10 * untranslatedCount > 3 * eligible

\* faulty variant: the keys the candidate lacks are deleted from the source
DeleteExtraAndMissing(translated, source) ==
  [translated |-> SelectSeq(translated, LAMBDA e : Has(source, e.k)),
   source |-> SelectSeq(source, LAMBDA e : In(translated, e.k))]

\* check 2, extra.forEach(k => delete translated[k]): the two objects as the
\* deletion leaves them; the source is only read
DeleteExtra(translated, source) ==
  [translated |-> SelectSeq(translated, LAMBDA e : Has(source, e.k)),
   source |-> source]

\* validate(translated, source, targetLang): the report, and the candidate
\* and the source as the call leaves them (the extra keys deleted)
validate(translated, source, targetLang) ==
  LET sourceKeys == Keys(source)
      missing == SelectSeq(sourceKeys, LAMBDA k : ~In(translated, k))
      extra == SelectSeq(Keys(translated), LAMBDA k : ~Has(source, k))
      kept == DeleteExtra(translated, source).translated
      e1 == IF Len(missing) > 0
            THEN <<Chars("Missing keys: ")
                     \o join([i \in 1..Len(missing) |-> Chars(missing[i])], Chars(", "))>>
            ELSE <<>>
      w2 == IF Len(extra) > 0
            THEN <<Chars("Extra keys (removed): ")
                     \o join([i \in 1..Len(extra) |-> Chars(extra[i])], Chars(", "))>>
            ELSE <<>>
      present == SelectSeq(sourceKeys, LAMBDA k : In(kept, k) /\ Has(kept, k))
      e3 == Flatten([i \in 1..Len(present) |->
              LET key == present[i]
                  srcType == TypeName(Get(source, key))
                  tgtType == TypeName(Get(kept, key))
              IN  IF srcType # tgtType
                  THEN <<Chars("Type mismatch on ") \o Quoted(Chars(key))
                           \o Chars(": expected ") \o Chars(srcType)
                           \o Chars(", got ") \o Chars(tgtType)>>
                  ELSE <<>>])
      e4 == Flatten([i \in 1..Len(present) |->
              LET key == present[i]
                  src == Get(source, key)
                  tgt == Get(kept, key)
              IN  IF src.t = "array" /\ tgt.t = "array" /\ Len(src.v) # Len(tgt.v)
                  THEN <<Chars("Array length mismatch on ") \o Quoted(Chars(key))
                           \o Chars(": expected ") \o NatToStr(Len(src.v))
                           \o Chars(", got ") \o NatToStr(Len(tgt.v))>>
                  ELSE <<>>])
      strs == StringPairs(kept, source)
      e5 == Flatten([i \in 1..Len(strs) |->
              StringErrors(strs[i], Get(source, strs[i]).v, Get(kept, strs[i]).v,
                           targetLang)])
      untranslatedCount == Len(UntranslatedKeys(kept, source, targetLang))
      stringKeys == SelectSeq(sourceKeys,
                      LAMBDA k : Get(source, k).t = "string" /\ Len(Get(source, k).v) > 30)
      e16 == IF BulkUntranslated(untranslatedCount, Len(stringKeys), targetLang)
             THEN <<NatToStr(untranslatedCount) \o <<"/">> \o NatToStr(Len(stringKeys))
                      \o Chars(" keys appear untranslated (identical to English)")>>
             ELSE <<>>
  IN  [errors |-> e1 \o e3 \o e4 \o e5 \o e16,
       warnings |-> w2,
       translated |-> kept,
       source |-> DeleteExtra(translated, source).source]

\* ------------------------------------------- quote normalization

TYPOGRAPHIC_QUOTES ==
  [l \in LANG_NAMES |->
    CASE l \in {"pl", "cs", "hu", "ro"} -> <<(<<"U+201E">>), (<<"U+201D">>)>>
      [] l = "de" -> <<(<<"U+201E">>), (<<"U+201C">>)>>
      [] l \in {"nl", "da", "tr", "hi", "zh", "ko"} -> <<(<<"U+201C">>), (<<"U+201D">>)>>
      [] l \in {"sv", "fi"} -> <<(<<"U+201D">>), (<<"U+201D">>)>>
      [] l \in {"nb", "es", "it", "pt", "ar", "ru", "uk"} -> <<(<<"U+00AB">>), (<<"U+00BB">>)>>
      [] l = "fr" -> <<(<<"U+00AB", "U+202F">>), (<<"U+202F", "U+00BB">>)>>
      [] l = "ja" -> <<(<<"U+300C">>), (<<"U+300D">>)>>]

\* the 1-based index of the first code unit of s in set at or after i, or 0
RECURSIVE FirstOf(_, _, _)
FirstOf(s, i, set) ==
  IF i > Len(s) THEN 0 ELSE IF s[i] \in set THEN i ELSE FirstOf(s, i + 1, set)

\* faulty variant: the text between the low quote and the straight quote may
\* hold typographic closing quotes
RECURSIVE FixHalfConvertedLoose(_, _, _)
FixHalfConvertedLoose(s, i, close) ==
  IF i > Len(s) THEN <<>>
  ELSE LET j == FirstOf(s, i + 1, {"\""})
       IN  IF s[i] = "U+201E" /\ j > 0
           THEN SubSeq(s, i, j - 1) \o close \o FixHalfConvertedLoose(s, j + 1, close)
           ELSE <<s[i]>> \o FixHalfConvertedLoose(s, i + 1, close)

\* result.replace(/„([^”“"]*?)"/g, `„$1${close}`), from i
RECURSIVE FixHalfConverted(_, _, _)
FixHalfConverted(s, i, close) ==
  IF i > Len(s) THEN <<>>
  ELSE LET j == FirstOf(s, i + 1, {"U+201D", "U+201C", "\""})
       IN  IF s[i] = "U+201E" /\ j > 0 /\ s[j] = "\""
           THEN SubSeq(s, i, j - 1) \o close \o FixHalfConverted(s, j + 1, close)
           ELSE <<s[i]>> \o FixHalfConverted(s, i + 1, close)

\* result.replace(/"([^"]*?)"/g, `${open}$1${close}`), from i
RECURSIVE ReplacePairs(_, _, _, _)
ReplacePairs(s, i, open, close) ==
  IF i > Len(s) THEN <<>>
  ELSE LET j == FirstOf(s, i + 1, {"\""})
       IN  IF s[i] = "\"" /\ j > 0
           THEN open \o SubSeq(s, i + 1, j - 1) \o close
                  \o ReplacePairs(s, j + 1, open, close)
           ELSE <<s[i]>> \o ReplacePairs(s, i + 1, open, close)

normalizeQuotes(text, langCode) ==
  IF langCode \notin DOMAIN TYPOGRAPHIC_QUOTES THEN text
  ELSE LET open == TYPOGRAPHIC_QUOTES[langCode][1]
           close == TYPOGRAPHIC_QUOTES[langCode][2]
           result == IF open = <<"U+201E">> THEN FixHalfConverted(text, 1, close)
                     ELSE text
       IN  ReplacePairs(result, 1, open, close)

\* ---------------------------------------------------- response handling

\* "plain text - strip wrapping quotes if model added them"
StripWrappingQuotes(value) ==
  IF \/ (startsWith(value, <<"\"">>) /\ endsWith(value, <<"\"">>))
     \/ (startsWith(value, <<"U+201C">>) /\ endsWith(value, <<"U+201D">>))
  THEN SubSeq(value, 2, Len(value) - 1)
  ELSE value

\* ------------------------------------------------------ findFailedKeys

\* s.split(sep) for a non-empty separator
RECURSIVE SplitOn(_, _, _)
SplitOn(s, sep, cur) ==
  IF s = <<>> THEN <<cur>>
  ELSE IF OccursAt(s, sep, 1)
       THEN <<cur>> \o SplitOn(SubSeq(s, Len(sep) + 1, Len(s)), sep, <<>>)
       ELSE SplitOn(Tail(s), sep, Append(cur, s[1]))

\* s.replace(pat, '') for a string pattern: the first occurrence removed
RemoveFirst(s, pat) ==
  IF ~includes(s, pat) THEN s
  ELSE LET i == CHOOSE i \in 1..(Len(s) + 1) :
                  OccursAt(s, pat, i) /\ \A j \in 1..(i - 1) : ~OccursAt(s, pat, j)
       IN  SubSeq(s, 1, i - 1) \o SubSeq(s, i + Len(pat), Len(s))

\* err.match(/"([^"]+)"/): group 1 in a one-element sequence, <<>> for null
RECURSIVE FirstQuoted(_, _)
FirstQuoted(err, i) ==
  IF i > Len(err) THEN <<>>
  ELSE LET j == FirstOf(err, i + 1, {"\""})
       IN  IF err[i] = "\"" /\ j > i + 1 THEN <<SubSeq(err, i + 1, j - 1)>>
           ELSE FirstQuoted(err, i + 1)

\* the property names of o (own and inherited) spelled chars: `chars in o`
NamesIn(o, chars) == {k \in KeySet(o) \cup ObjectPrototypeKeys : Chars(k) = chars}

\* faulty variant: the list of a 'Missing keys' error is not split
FailedKeysOfUnsplit(err, source, translated) ==
  IF startsWith(err, Chars("Missing keys:"))
  THEN LET ks == NamesIn(source, trim(RemoveFirst(err, Chars("Missing keys: "))))
       IN  IF ks = {} THEN <<>> ELSE <<CHOOSE k \in ks : TRUE>>
  ELSE IF includes(err, Chars("appear untranslated"))
  THEN SelectSeq(Keys(source),
                 LAMBDA key : /\ Get(source, key).t = "string"
                              /\ Len(Get(source, key).v) > 30
                              /\ Has(translated, key)
                              /\ Get(translated, key) = Get(source, key))
  ELSE LET match == FirstQuoted(err, 1)
           ks == IF match = <<>> THEN {} ELSE NamesIn(source, match[1])
       IN  IF ks = {} THEN <<>> ELSE <<CHOOSE k \in ks : TRUE>>

\* faulty variant: the key is not taken from the quotes of an error
FailedKeysOfUnquoted(err, source, translated) ==
  IF startsWith(err, Chars("Missing keys:"))
  THEN LET parts == SplitOn(RemoveFirst(err, Chars("Missing keys: ")), Chars(", "), <<>>)
       IN  Flatten([i \in 1..Len(parts) |->
                      LET ks == NamesIn(source, trim(parts[i]))
                      IN  IF ks = {} THEN <<>> ELSE <<CHOOSE k \in ks : TRUE>>])
  ELSE IF includes(err, Chars("appear untranslated"))
  THEN SelectSeq(Keys(source),
                 LAMBDA key : /\ Get(source, key).t = "string"
                              /\ Len(Get(source, key).v) > 30
                              /\ Has(translated, key)
                              /\ Get(translated, key) = Get(source, key))
  ELSE <<>>

\* faulty variant: the aggregate error names no key to retry
FailedKeysOfNoUntranslated(err, source, translated) ==
  IF startsWith(err, Chars("Missing keys:"))
  THEN LET parts == SplitOn(RemoveFirst(err, Chars("Missing keys: ")), Chars(", "), <<>>)
       IN  Flatten([i \in 1..Len(parts) |->
                      LET ks == NamesIn(source, trim(parts[i]))
                      IN  IF ks = {} THEN <<>> ELSE <<CHOOSE k \in ks : TRUE>>])
  ELSE IF includes(err, Chars("appear untranslated"))
  THEN <<>>
  ELSE LET match == FirstQuoted(err, 1)
           ks == IF match = <<>> THEN {} ELSE NamesIn(source, match[1])
       IN  IF ks = {} THEN <<>> ELSE <<CHOOSE k \in ks : TRUE>>

\* the keys one error adds to the set, in the order they are added
FailedKeysOf(err, source, translated) ==
  IF startsWith(err, Chars("Missing keys:"))
  THEN LET parts == SplitOn(RemoveFirst(err, Chars("Missing keys: ")), Chars(", "), <<>>)
       IN  Flatten([i \in 1..Len(parts) |->
                      LET ks == NamesIn(source, trim(parts[i]))
                      IN  IF ks = {} THEN <<>> ELSE <<CHOOSE k \in ks : TRUE>>])
  ELSE IF includes(err, Chars("appear untranslated"))
  THEN SelectSeq(Keys(source),
                 LAMBDA key : /\ Get(source, key).t = "string"
                              /\ Len(Get(source, key).v) > 30
                              /\ Has(translated, key)
                              /\ Get(translated, key) = Get(source, key))
  ELSE LET match == FirstQuoted(err, 1)
           ks == IF match = <<>> THEN {} ELSE NamesIn(source, match[1])
       IN  IF ks = {} THEN <<>> ELSE <<CHOOSE k \in ks : TRUE>>

\* findFailedKeys: the Set of keys, as the sequence of its insertion order
findFailedKeys(errors, source, translated, targetLang) ==
  Unique(Flatten([i \in 1..Len(errors) |-> FailedKeysOf(errors[i], source, translated)]))

\* ------------------------------------------------------- validateValue

\* validateValue(key, tgt, src): the per-key check of a semantic fix
validateValue(key, tgt, src) ==
  IF src.t # "string" \/ tgt.t # "string" THEN <<>>
  ELSE IF EmptyTranslation(src.v, tgt.v) THEN <<Chars("Empty translation")>>
  ELSE
    LET s == src.v
        t == tgt.v
        tags == Flatten([i \in 1..Len(ALLOWED_TAGS) |->
                  LET srcC == countTag(s, ALLOWED_TAGS[i])
                      tgtC == countTag(t, ALLOWED_TAGS[i])
                  IN  (IF srcC.open # tgtC.open \/ srcC.close # tgtC.close
                       THEN <<Chars("HTML <") \o Chars(ALLOWED_TAGS[i])
                                \o Chars("> count mismatch")>>
                       ELSE <<>>)
                      \o
                      (IF tgtC.open # tgtC.close
                       THEN <<Chars("Unclosed <") \o Chars(ALLOWED_TAGS[i]) \o <<">">> >>
                       ELSE <<>>)])
        stems == NameStems
        srcUnits == Units(s)
        names == Flatten([n \in 1..Len(PROTECTED_NAMES) |->
                   IF ~includesIn(s, PROTECTED_NAMES[n], srcUnits) THEN <<>>
                   ELSE Flatten([j \in 1..Len(stems[n]) |->
                          IF includes(t, stems[n][j]) THEN <<>>
                          ELSE <<Chars("Missing protected name: ")
                                   \o Quoted(PROTECTED_NAMES[n]) \o Chars(" (stem ")
                                   \o Quoted(stems[n][j]) \o <<")">> >>])])
        titles == Flatten([i \in 1..Len(PROTECTED_TITLES) |->
                    IF /\ includesIn(s, PROTECTED_TITLES[i], srcUnits)
                       /\ ~includes(t, PROTECTED_TITLES[i])
                    THEN <<Chars("Missing protected title: ") \o Quoted(PROTECTED_TITLES[i])>>
                    ELSE <<>>])
        length == (IF RatioBelow(Len(t), Len(s), 4, 10)
                   THEN <<Chars("Too short: ") \o PercentText(Len(t), Len(s)) \o <<"%">> >>
                   ELSE <<>>)
                  \o
                  (IF RatioAbove(Len(t), Len(s), 25, 10)
                   THEN <<Chars("Too long: ") \o PercentText(Len(t), Len(s)) \o <<"%">> >>
                   ELSE <<>>)
        arrow == IF ARROW \in srcUnits /\ ~includes(t, <<ARROW>>)
                 THEN <<Chars("Missing ") \o <<ARROW>> \o Chars(" arrow")>>
                 ELSE <<>>
        units == Units(t)
        folded == Folded(t)
        patterns == Flatten([i \in 1..Len(DANGEROUS_PATTERNS) |->
                      IF RegexTestIn(DANGEROUS_PATTERNS[i].pat, t,
                                     DANGEROUS_PATTERNS[i].ci, DANGEROUS_PATTERNS[i].need,
                                     IF DANGEROUS_PATTERNS[i].ci THEN folded ELSE units)
                      THEN <<Chars("SECURITY: ") \o DANGEROUS_PATTERNS[i].label>>
                      ELSE <<>>])
        found == TagNames(t, 1)
        badTags == Flatten([i \in 1..Len(found) |->
                     IF \E j \in 1..Len(ALLOWED_TAGS) :
                          Chars(ALLOWED_TAGS[j]) = toLowerCase(found[i])
                     THEN <<>>
                     ELSE <<Chars("SECURITY: <") \o found[i] \o <<">">> >>])
        encoded == IF ENCODED_TAG_RE(t) THEN <<Chars("SECURITY: encoded HTML tag")>>
                   ELSE <<>>
        unicode == IF \E i \in 1..Len(t) : t[i] \in UNICODE_SUSPICIOUS
                   THEN <<Chars("SECURITY: suspicious unicode")>> ELSE <<>>
        escape == IF UnicodeEscape(t) THEN <<Chars("SECURITY: unicode escape")>> ELSE <<>>
    IN  tags \o names \o titles \o length \o arrow \o patterns \o badTags
          \o encoded \o unicode \o escape

\* --------------------------------------------------------- reorderKeys

\* faulty variant: only the first key is carried over
reorderKeysFirstOnly(translated, source) ==
  IF Len(translated) = 0 THEN <<>> ELSE <<translated[1]>>

\* faulty variant: the candidate is saved in its own key order
reorderKeysAsInserted(translated, source) == translated

reorderKeys(translated, source) ==
  LET keys == SelectSeq(Keys(source), LAMBDA key : In(translated, key) /\ Has(translated, key))
  IN  [i \in 1..Len(keys) |-> [k |-> keys[i], v |-> Get(translated, keys[i])]]

\* ------------------------------------------------- the run's documents
\* locales/en.json and the batches over its keys, cut down to one body
\* section of two string keys, a second body section whose key the document
\* does not have, and one derived batch of one array key and of one key the
\* document does not have (the requests are written for such keys, 552, 622).

EnJson ==
  << [k |-> "h.t", v |-> Str(Chars("The Loop"))],
     [k |-> "s.p", v |-> Str(Chars("The loop <em>closes</em> on itself."))],
     [k |-> "tags", v |-> Arr(<<Chars("loop"), Chars("form")>>)] >>

BATCHES_BODY == << [name |-> "s01", keys |-> <<"h.t", "s.p">>],
                   [name |-> "s02", keys |-> <<"x.t">>] >>

BATCHES_DERIVED == << [name |-> "arrays", keys |-> <<"tags", "meta.k">>] >>

\* a file of the locales or logs directory: absent, or present with content;
\* parses tells whether JSON.parse reads it
NoFile == [exists |-> FALSE, parses |-> FALSE, content |-> <<>>]
File(content) == [exists |-> TRUE, parses |-> TRUE, content |-> content]
CorruptFile == [exists |-> TRUE, parses |-> FALSE, content |-> <<>>]

Null == "null"

\* ------------------------------------------------ the Generation Backend
\* What client.messages.create may answer.  stop is stop_reason; every
\* answer reports the same usage.

Usage == [input_tokens |-> 2, output_tokens |-> 1]

Reply(text, stop) == [text |-> text, stop |-> stop]

\* answers to a request for one string value; one of them is cut off at the
\* output limit
TextReplies(key) ==
  CASE key = "h.t" ->
         { Reply(Chars("\"Petla\"\n"), "end_turn"),
           Reply(Chars("Petla"), "max_tokens"),
           Reply(Chars("Ta \"petla\" bez konca"), "end_turn"),
           Reply(Chars("<script>x</script>"), "end_turn") }
    [] key = "s.p" ->
         { Reply(Chars("Petla <em>zamyka</em> sie sama."), "end_turn"),
           Reply(Chars("The loop <em>closes</em> on itself."), "end_turn") }
    [] OTHER -> { Reply(Chars("Petla"), "end_turn") }

\* answers to a request for an array: what extractJSON makes of the text
\* (json: "array", "object", or "invalid" when it throws) and the items
ArrayReply(json, items) == [json |-> json, items |-> items, stop |-> "end_turn"]

ArrayReplies(key) ==
  { ArrayReply("array", <<Chars("petla"), Chars("forma")>>),
    ArrayReply("array", <<Chars("<script>x</script>"), Chars("forma")>>),
    ArrayReply("invalid", <<>>) }

\* answers to translateBatch: the parsed object, "invalid", or truncated
BatchReply(stop, json, result) == [stop |-> stop, json |-> json, result |-> result]

BatchReplies(batch) ==
  { BatchReply("max_tokens", "invalid", <<>>),
    BatchReply("end_turn", "object",
               <<[k |-> "tags", v |-> Arr(<<Chars("petla"), Chars("forma")>>)]>>),
    BatchReply("end_turn", "object",
               <<[k |-> "tags", v |-> Arr(<<Chars("<script>x</script>"), Chars("forma")>>)]>>),
    BatchReply("end_turn", "object",
               <<[k |-> "tags", v |-> Arr(<<Chars("petla")>>)]>>),
    BatchReply("end_turn", "object",
               <<[k |-> "tags", v |-> Arr(<<Chars("petla"), Chars("forma")>>)],
                 [k |-> "h.t", v |-> Str(Chars("Inny tytul"))]>>) }

\* answers to generateGlossary
GeneratedGlossary == <<[k |-> "framework", v |-> "ramy"], [k |-> "loop", v |-> "petla"]>>
CachedGlossary == <<[k |-> "framework", v |-> "rama"]>>

GlossaryReplies ==
  { BatchReply("max_tokens", "invalid", <<>>),
    BatchReply("end_turn", "invalid", <<>>),
    BatchReply("end_turn", "array", <<>>),
    BatchReply("end_turn", "object", GeneratedGlossary) }

\* answers to semanticReview: the issues its lines parse to (none for CLEAN),
\* on the keys of the document, an inherited property name, an unknown key
MaxIssues == 1

IssueKeys == KeySet(EnJson) \cup ObjectPrototypeKeys \cup {"nokey"}

RECURSIVE IssueLists(_)
IssueLists(n) ==
  IF n = 0 THEN {<<>>}
  ELSE LET shorter == IssueLists(n - 1)
       IN  shorter \cup
           {Append(l, [key |-> k, type |-> "meaning"]) : l \in {x \in shorter : Len(x) = n - 1},
                                                          k \in IssueKeys}

ReviewReplies ==
  {[stop |-> "max_tokens", issues |-> <<>>]}
    \cup {[stop |-> "end_turn", issues |-> l] : l \in IssueLists(MaxIssues)}

\* ------------------------------------------------------ request results

\* faulty variant: the context takes the translations of every batch
SectionTLOfAllBatches(batch, key, source, priorTranslations) ==
  LET ks == SelectSeq(Keys(priorTranslations),
                      LAMBDA k : /\ k # key
                                 /\ In(source, k)
                                 /\ Get(priorTranslations, k).t = "string")
  IN  [i \in 1..Len(ks) |-> [k |-> ks[i], v |-> Get(priorTranslations, ks[i]).v]]

\* translateKey, the sectionTL object of the section context: for the other
\* keys of the batch that the source has, the translation made so far if it
\* is a string, cut after 200 code units
SectionTL(batch, key, source, priorTranslations) ==
  LET ks == SelectSeq(batch.keys,
                      LAMBDA k : /\ k # key
                                 /\ In(source, k)
                                 /\ Has(priorTranslations, k)
                                 /\ Get(priorTranslations, k).t = "string")
  IN  [i \in 1..Len(ks) |->
         LET t == Get(priorTranslations, ks[i]).v
         IN  [k |-> ks[i],
              v |-> IF Len(t) > 200 THEN substring(t, 0, 200) \o Chars("...") ELSE t]]

\* translateKey: { value, error } from the answer
translateKey(sourceValue, reply) ==
  IF sourceValue.t = "array"
  THEN IF reply.json = "invalid" THEN [value |-> Null, error |-> "Array parse failed"]
       ELSE IF reply.json # "array"
            THEN [value |-> Null, error |-> "Expected array, got object"]
            ELSE [value |-> Arr(reply.items), error |-> Null]
  ELSE [value |-> Str(StripWrappingQuotes(trim(reply.text))), error |-> Null]

\* faulty variant: an answer that does not parse counts as an empty array
retryKeyEmptyOnFailure(sourceValue, reply) ==
  IF sourceValue.t = "array"
  THEN IF reply.json # "array" THEN [value |-> Arr(<<>>), error |-> Null]
       ELSE [value |-> Arr(reply.items), error |-> Null]
  ELSE [value |-> Str(StripWrappingQuotes(trim(reply.text))), error |-> Null]

\* retryKey: { value, error } from the answer
retryKey(sourceValue, reply) ==
  IF sourceValue.t = "array"
  THEN IF reply.json = "invalid" THEN [value |-> Null, error |-> "Array parse failed"]
       ELSE IF reply.json # "array"
            THEN [value |-> Null, error |-> "Expected array, got object"]
            ELSE [value |-> Arr(reply.items), error |-> Null]
  ELSE [value |-> Str(StripWrappingQuotes(trim(reply.text))), error |-> Null]

\* fixSemanticKey: { value, error } from the answer
fixSemanticKey(reply) ==
  [value |-> Str(StripWrappingQuotes(trim(reply.text))), error |-> Null]

\* translateBatch: { result, error } from the answer
translateBatch(reply) ==
  IF reply.stop = "max_tokens"
  THEN [result |-> Null, error |-> "Response truncated (max_tokens)"]
  ELSE IF reply.json = "invalid" THEN [result |-> Null, error |-> "JSON parse"]
  ELSE [result |-> reply.result, error |-> Null]

\* faulty variant: an answer that is an array passes for a glossary
generateGlossaryAcceptsArray(reply) ==
  IF reply.stop = "max_tokens" THEN [glossary |-> Null, error |-> "Response truncated"]
  ELSE IF reply.json = "invalid" THEN [glossary |-> Null, error |-> "JSON parse"]
  ELSE [glossary |-> reply.result, error |-> Null]

\* generateGlossary: { glossary, error } from the answer
generateGlossary(reply) ==
  IF reply.stop = "max_tokens" THEN [glossary |-> Null, error |-> "Response truncated"]
  ELSE IF reply.json = "invalid" THEN [glossary |-> Null, error |-> "JSON parse"]
  ELSE IF reply.json = "array" THEN [glossary |-> Null, error |-> "Expected object"]
  ELSE [glossary |-> reply.result, error |-> Null]

\* semanticReview: { issues, error } from the answer
semanticReview(reply) ==
  IF reply.stop = "max_tokens" THEN [issues |-> Null, error |-> "Response truncated"]
  ELSE [issues |-> reply.issues, error |-> Null]

\* faulty variant: every key of the batch result is merged
RECURSIVE MergeBatchAll(_, _, _)
MergeBatchAll(translated, keys, result) ==
  IF result = <<>> THEN translated
  ELSE MergeBatchAll(Put(translated, result[1].k, result[1].v), keys, Tail(result))

\* the keys of a batch result merged into the candidate, in batch order
RECURSIVE MergeBatch(_, _, _)
MergeBatch(translated, keys, result) ==
  IF keys = <<>> THEN translated
  ELSE MergeBatch(IF In(result, keys[1]) /\ Has(result, keys[1])
                  THEN Put(translated, keys[1], Get(result, keys[1]))
                  ELSE translated,
                  Tail(keys), result)

\* faulty variant: the post-processing loop is left out
NormalizeAllSkipped(translated, targetLang) == translated

\* the post-processing loop: normalizeQuotes on every string value
NormalizeAll(translated, targetLang) ==
  [i \in 1..Len(translated) |->
     IF translated[i].v.t = "string"
     THEN [k |-> translated[i].k,
           v |-> Str(normalizeQuotes(translated[i].v.v, targetLang))]
     ELSE translated[i]]

\* errors.filter(e => e.startsWith('SECURITY:'))
SecurityOnly(errs) == SelectSeq(errs, LAMBDA e : startsWith(e, Chars("SECURITY:")))

\* Faulty variants of the decisions below; each property further down that
\* rests on a decision fails when the variant stands in for it.

\* the last round's errors are let through
OutcomeLastRoundPasses(errs, failed, r) ==
  IF Len(errs) = 0 THEN "clean"
  ELSE IF Len(SecurityOnly(errs)) > 0 THEN "securityAbort"
  ELSE IF r = MAX_ROUNDS THEN "clean"
  ELSE IF Len(failed) = 0 THEN "errors"
  ELSE "retry"

\* security errors are retried like any other error
OutcomeNoSecurityAbort(errs, failed, r) ==
  IF Len(errs) = 0 THEN "clean"
  ELSE IF r = MAX_ROUNDS THEN "errors"
  ELSE IF Len(failed) = 0 THEN "errors"
  ELSE "retry"

\* the loop retries for as long as there are keys to retry
OutcomeNoRoundLimit(errs, failed, r) ==
  IF Len(errs) = 0 THEN "clean"
  ELSE IF Len(SecurityOnly(errs)) > 0 THEN "securityAbort"
  ELSE IF Len(failed) = 0 THEN "errors"
  ELSE "retry"

\* the failure exit does not return: the run goes on to the semantic phase
FailureFallsThrough == "review"

\* a fix is written whatever validateValue reports
FixAlwaysAccepted(error, techErrors) == error = Null

\* a round without an applied fix ends the run instead of the loop
AfterIssuesReturns(nApplied, r) ==
  IF nApplied = 0 THEN "done"
  ELSE IF r = MAX_SEMANTIC_ROUNDS THEN "save" ELSE "review"

\* what one round of the validation loop does with its report: break with
\* technicallyClean ("clean"), break on a security error ("securityAbort"),
\* break after the last round or without keys to retry ("errors"), or retry
Outcome(errs, failed, r) ==
  IF Len(errs) = 0 THEN "clean"
  ELSE IF Len(SecurityOnly(errs)) > 0 THEN "securityAbort"
  ELSE IF r = MAX_ROUNDS THEN "errors"
  ELSE IF Len(failed) = 0 THEN "errors"
  ELSE "retry"

\* where translate is after the failure exit (it returns)
FailureExit == "done"

\* whether the fix of an issue is written into the candidate
FixAccepted(error, techErrors) == error = Null /\ Len(techErrors) = 0

\* where the semantic loop goes after the last issue of a round
AfterIssues(nApplied, r) ==
  IF nApplied = 0 \/ r = MAX_SEMANTIC_ROUNDS THEN "save" ELSE "review"

\* ------------------------------------------------------------- the run
\* One invocation translate(targetLang, force, modelKey, regenGlossary).

VARIABLES
  targetLang,       \* the language code of the run
  force,            \* --force
  regenGlossary,    \* --regen-glossary
  source,           \* locales/en.json as read
  outFile,          \* locales/{targetLang}.json
  glossaryFile,     \* locales/glossary-{targetLang}.json
  logFile,          \* logs/translate-{targetLang}-{timestamp}.json of this run
  pc,               \* where translate is
  glossary,
  translated,
  log,              \* totalTokensIn, totalTokensOut, result, phases
  bi,               \* index of the batch at hand
  ki,               \* index of the key at hand in that batch
  round,
  errors,           \* the errors of the last validate
  failedKeys,       \* the keys of the retry round still to retry
  technicallyClean,
  sround,
  issues,           \* the issues of the review still to handle
  fix,              \* the fix just requested: key, value, techErrors, accepted
  applied,
  calls,            \* the requests made to the Generation Backend, by kind
  response,         \* the answer to the last request: stop_reason, kind of text
  warnings,         \* the warnings of the last validate
  targetLangs,      \* main: the languages still to come, with the files on disk
  finished,         \* main: the languages done, with result and file written
  langs,            \* server.js: the languages loaded at startup
  req,              \* server.js: the request handled last
  res               \* server.js: the answer to it

vars ==
  <<targetLang, force, regenGlossary, source, outFile, glossaryFile, logFile, pc,
    glossary, translated, log, bi, ki, round, errors, failedKeys, technicallyClean,
    sround, issues, fix, applied, calls, response, warnings, targetLangs, finished,
    langs, req, res>>

\* the server before its first request
NoRequest == [route |-> "none", lang |-> <<>>, acceptLanguage |-> [present |-> FALSE, value |-> <<>>]]
NoAnswer == [status |-> 0, location |-> <<>>, rendered |-> <<>>]

server == <<langs, req, res>>

params == <<targetLang, force, regenGlossary, source, targetLangs, finished, server>>

\* source[key]: the value of an own key, Object.prototype's member otherwise
SourceValue(key) ==
  IF Has(source, key) THEN Get(source, key) ELSE Other

\* the translation file of an earlier run
PublishedTranslation == <<[k |-> "h.t", v |-> Str(Chars("Stary tytul"))]>>

\* the command lines, and the files found on disk, a run is started with
Invocation(lang, f, regen, out, gloss) ==
  [targetLang |-> lang, force |-> f, regenGlossary |-> regen, outFile |-> out,
   glossaryFile |-> gloss]

Invocations ==
  { Invocation("pl", FALSE, FALSE, NoFile, NoFile),
    Invocation("pl", FALSE, FALSE, File(PublishedTranslation), File(CachedGlossary)),
    Invocation("ja", TRUE, FALSE, File(PublishedTranslation), File(CachedGlossary)),
    Invocation("fr", TRUE, TRUE, NoFile, File(CachedGlossary)),
    Invocation("pl", TRUE, FALSE, NoFile, CorruptFile) }

CallKinds == {"glossary", "translate", "batch", "retry", "review", "fix"}

Called(kind) == [calls EXCEPT ![kind] = @ + 1]

\* faulty variant: the usage of a response is not added
AddUsageDropped(l, usage) == l

AddUsage(l, usage) ==
  [l EXCEPT !.totalTokensIn = @ + usage.input_tokens,
            !.totalTokensOut = @ + usage.output_tokens]

Phase(l, label) == [l EXCEPT !.phases = Append(@, label)]

NoFix == [key |-> Null, value |-> Other, techErrors |-> <<>>, accepted |-> FALSE]

\* response.stop_reason and what response.content[0].text holds: "text", or
\* for a JSON answer what extractJSON makes of it
Response(stop, json) == [stop |-> stop, json |-> json]
NoResponse == Response(Null, Null)

Init ==
  /\ \E inv \in Invocations :
       /\ targetLang = inv.targetLang
       /\ force = inv.force
       /\ regenGlossary = inv.regenGlossary
       /\ outFile = inv.outFile
       /\ glossaryFile = inv.glossaryFile
  /\ source = EnJson
  /\ logFile = NoFile
  /\ pc = "start"
  /\ glossary = <<>>
  /\ translated = <<>>
  /\ log = [totalTokensIn |-> 0, totalTokensOut |-> 0, result |-> Null, phases |-> <<>>]
  /\ bi = 1
  /\ ki = 1
  /\ round = 1
  /\ errors = <<>>
  /\ failedKeys = <<>>
  /\ technicallyClean = FALSE
  /\ sround = 1
  /\ issues = <<>>
  /\ fix = NoFix
  /\ applied = 0
  /\ calls = [kind \in CallKinds |-> 0]
  /\ response = NoResponse
  /\ warnings = <<>>
  /\ targetLangs = <<>>
  /\ finished = <<>>
  /\ langs = {}
  /\ req = NoRequest
  /\ res = NoAnswer

\* translate, to the first request: the existing file without --force ends it
\* faulty variant: the translation file on disk is not looked at
StartIgnoresFile ==
  /\ pc = "start"
  /\ pc' = "glossary"
  /\ UNCHANGED <<params, outFile, glossaryFile, logFile, glossary, translated, log, bi,
                 ki, round, errors, failedKeys, technicallyClean, sround, issues,
                 fix, applied, calls, warnings>>
  /\ response' = NoResponse

Start ==
  /\ pc = "start"
  /\ pc' = IF outFile.exists /\ ~force THEN "done" ELSE "glossary"
  /\ UNCHANGED <<params, outFile, glossaryFile, logFile, glossary, translated, log, bi,
                 ki, round, errors, failedKeys, technicallyClean, sround, issues,
                 fix, applied, calls, warnings>>
  /\ response' = NoResponse

\* Phase 0: the cached glossary is loaded, or, when there is none, it was not
\* asked for or JSON.parse throws on it, one is generated and saved
\* faulty variant: --force also regenerates the glossary
CacheHitWithoutForce ==
  ~regenGlossary /\ glossaryFile.exists /\ glossaryFile.parses /\ ~force

\* faulty variant: the cached glossary is never used
CacheNeverHit == FALSE

CacheHit == ~regenGlossary /\ glossaryFile.exists /\ glossaryFile.parses

LoadGlossary ==
  /\ pc = "glossary"
  /\ CacheHit
  /\ glossary' = glossaryFile.content
  /\ log' = Phase(log, "glossary: cached")
  /\ pc' = "body"
  /\ UNCHANGED <<params, outFile, glossaryFile, logFile, translated, bi, ki, round,
                 errors, failedKeys, technicallyClean, sround, issues, fix, applied,
                 calls, warnings>>
  /\ response' = NoResponse

GenerateGlossary ==
  /\ pc = "glossary"
  /\ ~CacheHit
  /\ \E reply \in GlossaryReplies :
       LET r == generateGlossary(reply)
       IN  /\ calls' = Called("glossary")
           /\ response' = Response(reply.stop, reply.json)
           /\ IF r.error # Null
              THEN /\ log' = Phase(AddUsage(log, Usage), "glossary: error")
                   /\ UNCHANGED <<glossary, glossaryFile>>
              ELSE /\ glossary' = reply.result
                   /\ glossaryFile' = File(reply.result)
                   /\ log' = Phase(AddUsage(log, Usage), "glossary: generated")
  /\ pc' = "body"
  /\ UNCHANGED <<params, outFile, logFile, translated, bi, ki, round, errors,
                 failedKeys, technicallyClean, sround, issues, fix, applied, warnings>>

\* faulty variant: the batches after the current one are left out
AfterKeySkipsBatches(bs, next) ==
  IF ki < Len(bs[bi].keys) THEN [pc |-> pc, bi |-> bi, ki |-> ki + 1]
  ELSE [pc |-> next, bi |-> 1, ki |-> 1]

\* where the run goes after the key (bi, ki) of the batches bs
AfterKey(bs, next) ==
  IF ki < Len(bs[bi].keys) THEN [pc |-> pc, bi |-> bi, ki |-> ki + 1]
  ELSE IF bi < Len(bs) THEN [pc |-> IF pc = "fallback" THEN "derived" ELSE pc,
                             bi |-> bi + 1, ki |-> 1]
  ELSE [pc |-> next, bi |-> 1, ki |-> 1]

\* Phase 1a: one key of a body batch
TranslateBodyKey ==
  /\ pc = "body"
  /\ LET key == BATCHES_BODY[bi].keys[ki]
         src == SourceValue(key)
         to == AfterKey(BATCHES_BODY, "derived")
     IN  /\ \E reply \in (IF src.t = "array" THEN ArrayReplies(key) ELSE TextReplies(key)) :
               LET r == translateKey(src, reply)
               IN  /\ translated' = IF r.error # Null THEN translated
                                     ELSE Put(translated, key, r.value)
                   /\ response' = Response(reply.stop,
                                            IF src.t = "array" THEN reply.json ELSE "text")
         /\ pc' = to.pc
         /\ bi' = to.bi
         /\ ki' = to.ki
         /\ log' = AddUsage(log, Usage)
  /\ calls' = Called("translate")
  /\ UNCHANGED <<params, outFile, glossaryFile, logFile, glossary, round, errors,
                 failedKeys, technicallyClean, sround, issues, fix, applied, warnings>>

\* Phase 1b: one derived batch as JSON; on failure its keys go one by one
TranslateDerivedBatch ==
  /\ pc = "derived"
  /\ \E reply \in BatchReplies(BATCHES_DERIVED[bi]) :
       LET r == translateBatch(reply)
       IN  /\ response' = Response(reply.stop, reply.json)
           /\ IF r.error = Null
              THEN /\ translated' = MergeBatch(translated, BATCHES_DERIVED[bi].keys,
                                                reply.result)
                   /\ IF bi < Len(BATCHES_DERIVED)
                      THEN /\ bi' = bi + 1
                           /\ pc' = "derived"
                           /\ log' = AddUsage(log, Usage)
                      ELSE /\ bi' = 1
                           /\ pc' = "validate"
                           /\ log' = Phase(AddUsage(log, Usage), "batch-translate")
                   /\ ki' = 1
              ELSE /\ pc' = "fallback"
                   /\ ki' = 1
                   /\ log' = AddUsage(log, Usage)
                   /\ UNCHANGED <<translated, bi>>
  /\ calls' = Called("batch")
  /\ UNCHANGED <<params, outFile, glossaryFile, logFile, glossary, round, errors,
                 failedKeys, technicallyClean, sround, issues, fix, applied, warnings>>

\* the per-key fallback of a failed derived batch: retryKey without errors
FallbackKey ==
  /\ pc = "fallback"
  /\ LET key == BATCHES_DERIVED[bi].keys[ki]
         src == SourceValue(key)
         to == AfterKey(BATCHES_DERIVED, "validate")
     IN  /\ \E reply \in (IF src.t = "array" THEN ArrayReplies(key) ELSE TextReplies(key)) :
               LET r == retryKey(src, reply)
               IN  /\ translated' = IF r.error # Null THEN translated
                                     ELSE Put(translated, key, r.value)
                   /\ response' = Response(reply.stop,
                                            IF src.t = "array" THEN reply.json ELSE "text")
         /\ pc' = to.pc
         /\ bi' = to.bi
         /\ ki' = to.ki
         /\ log' = IF to.pc = "validate"
                   THEN Phase(AddUsage(log, Usage), "batch-translate")
                   ELSE AddUsage(log, Usage)
  /\ calls' = Called("retry")
  /\ UNCHANGED <<params, outFile, glossaryFile, logFile, glossary, round, errors,
                 failedKeys, technicallyClean, sround, issues, fix, applied, warnings>>

\* faulty variant: the failure exit does not set the result
FailedLogUnset(l) == l

\* the failure exit: result 'failed', the log written, no translation file
FailedLog(l) == [l EXCEPT !.result = "failed"]

\* Phases 2 and 3: one round of the validation loop, up to its first request
ValidateRound ==
  /\ pc = "validate"
  /\ \E report \in {validate(translated, source, targetLang)} :
       \E failed \in {IF Len(report.errors) = 0 THEN <<>>
                      ELSE findFailedKeys(report.errors, source, report.translated,
                                          targetLang)} :
         LET outcome == Outcome(report.errors, failed, round)
         IN  /\ translated' = report.translated
             /\ source' = report.source
             /\ errors' = report.errors
             /\ warnings' = report.warnings
             /\ CASE outcome = "clean" ->
                       /\ technicallyClean' = TRUE
                       /\ log' = Phase(log, "validate: clean")
                       /\ pc' = "review"
                       /\ UNCHANGED <<failedKeys, logFile>>
                  [] outcome = "retry" ->
                       /\ failedKeys' = failed
                       /\ pc' = "retry"
                       /\ UNCHANGED <<log, logFile, technicallyClean>>
                  [] OTHER ->
                       /\ log' = FailedLog(Phase(log, "validate: " \o outcome))
                       /\ logFile' = File(log')
                       /\ pc' = FailureExit
                       /\ UNCHANGED <<failedKeys, technicallyClean>>
  /\ response' = NoResponse
  /\ UNCHANGED <<targetLang, force, regenGlossary, outFile, glossaryFile, glossary, bi,
                 ki, round, sround, issues, fix, applied, calls, targetLangs, finished,
                 server>>

\* one key of a retry round; after the last one the next round validates
RetryFailedKey ==
  /\ pc = "retry"
  /\ LET key == failedKeys[1]
         src == SourceValue(key)
     IN  \E reply \in (IF src.t = "array" THEN ArrayReplies(key) ELSE TextReplies(key)) :
           LET r == retryKey(src, reply)
           IN  /\ translated' = IF r.error # Null THEN translated
                                 ELSE Put(translated, key, r.value)
               /\ response' = Response(reply.stop,
                                        IF src.t = "array" THEN reply.json ELSE "text")
  /\ failedKeys' = Tail(failedKeys)
  /\ IF Len(failedKeys) = 1
     THEN /\ round' = round + 1
          /\ pc' = "validate"
          /\ log' = Phase(AddUsage(log, Usage), "retry")
     ELSE /\ log' = AddUsage(log, Usage)
          /\ UNCHANGED <<round, pc>>
  /\ calls' = Called("retry")
  /\ UNCHANGED <<params, outFile, glossaryFile, logFile, glossary, bi, ki, errors,
                 technicallyClean, sround, issues, fix, applied, warnings>>

\* Phase 4: one semantic review
SemanticReview ==
  /\ pc = "review"
  /\ \E reply \in ReviewReplies :
       LET r == semanticReview(reply)
       IN  /\ response' = Response(reply.stop, "text")
           /\ IF r.error # Null
              THEN /\ log' = Phase(AddUsage(log, Usage), "review: error")
                   /\ pc' = "save"
                   /\ UNCHANGED <<issues, applied>>
              ELSE IF Len(reply.issues) = 0
              THEN /\ log' = Phase(AddUsage(log, Usage), "review: clean")
                   /\ pc' = "save"
                   /\ UNCHANGED <<issues, applied>>
              ELSE /\ log' = AddUsage(log, Usage)
                   /\ issues' = reply.issues
                   /\ applied' = 0
                   /\ pc' = "fix"
  /\ calls' = Called("review")
  /\ fix' = NoFix
  /\ UNCHANGED <<params, outFile, glossaryFile, logFile, glossary, translated, bi, ki,
                 round, errors, failedKeys, technicallyClean, sround, warnings>>

\* Phase 5: an issue on an unknown key or on an array key is skipped
SkipIssue ==
  /\ pc = "fix"
  /\ LET issue == issues[1]
     IN  ~In(source, issue.key) \/ SourceValue(issue.key).t = "array"
  /\ issues' = Tail(issues)
  /\ IF Len(issues) = 1
     THEN /\ pc' = AfterIssues(applied, sround)
          /\ sround' = IF AfterIssues(applied, sround) = "review" THEN sround + 1
                       ELSE sround
          /\ log' = Phase(log, "review: issues")
     ELSE UNCHANGED <<pc, sround, log>>
  /\ fix' = NoFix
  /\ response' = NoResponse
  /\ UNCHANGED <<params, outFile, glossaryFile, logFile, glossary, translated, bi, ki,
                 round, errors, failedKeys, technicallyClean, applied, calls, warnings>>

\* Phase 5: a fix is requested, checked by validateValue, applied or reverted
FixIssue ==
  /\ pc = "fix"
  /\ LET issue == issues[1]
         src == SourceValue(issue.key)
     IN  /\ In(source, issue.key)
         /\ src.t # "array"
         /\ \E reply \in TextReplies(issue.key) :
              \E r \in {fixSemanticKey(reply)} :
                \E techErrors \in {validateValue(issue.key, r.value, src)} :
                  LET ok == FixAccepted(r.error, techErrors)
                      n == IF ok THEN applied + 1 ELSE applied
                  IN  /\ translated' = IF ok THEN Put(translated, issue.key, r.value)
                                       ELSE translated
                      /\ response' = Response(reply.stop, "text")
                      /\ applied' = n
                      /\ fix' = [key |-> issue.key, value |-> r.value,
                                 techErrors |-> techErrors, accepted |-> ok]
                      /\ IF Len(issues) = 1
                         THEN /\ pc' = AfterIssues(n, sround)
                              /\ sround' = IF AfterIssues(n, sround) = "review"
                                           THEN sround + 1 ELSE sround
                              /\ log' = Phase(AddUsage(log, Usage), "review: issues")
                         ELSE /\ log' = AddUsage(log, Usage)
                              /\ UNCHANGED <<pc, sround>>
  /\ issues' = Tail(issues)
  /\ calls' = Called("fix")
  /\ UNCHANGED <<params, outFile, glossaryFile, logFile, glossary, bi, ki, round,
                 errors, failedKeys, technicallyClean, warnings>>

\* quote normalization, key reordering, the translation file and the log
Save ==
  /\ pc = "save"
  /\ translated' = NormalizeAll(translated, targetLang)
  /\ outFile' = File(reorderKeys(translated', source))
  /\ log' = [log EXCEPT !.result = "success"]
  /\ logFile' = File(log')
  /\ pc' = "done"
  /\ fix' = NoFix
  /\ response' = NoResponse
  /\ UNCHANGED <<params, glossaryFile, glossary, bi, ki, round, errors, failedKeys,
                 technicallyClean, sround, issues, applied, calls, warnings>>

Next ==
  \/ Start
  \/ LoadGlossary
  \/ GenerateGlossary
  \/ TranslateBodyKey
  \/ TranslateDerivedBatch
  \/ FallbackKey
  \/ ValidateRound
  \/ RetryFailedKey
  \/ SemanticReview
  \/ SkipIssue
  \/ FixIssue
  \/ Save

Spec == Init /\ [][Next]_vars

\* The candidates a validation round may be handed: each key of the source
\* absent, or with one of a few values of the right or of the wrong type, and
\* possibly a key the source does not have.
Absent == [t |-> "absent", v |-> <<>>]

Entry(key, value) == IF value.t = "absent" THEN <<>> ELSE <<[k |-> key, v |-> value]>>

CandidateValues(key) ==
  CASE key = "h.t" -> {Absent, Str(Chars("Petla")), Arr(<<Chars("Petla")>>)}
    [] key = "s.p" -> {Absent, Str(Chars("Petla <em>zamyka</em> sie sama.")),
                       Str(Chars("The loop <em>closes</em> on itself."))}
    [] key = "tags" -> {Absent, Arr(<<Chars("petla"), Chars("forma")>>),
                        Arr(<<Chars("petla")>>),
                        Arr(<<Chars("petla"), Chars("forma"), Chars("kod")>>),
                        Str(Chars("petla, forma"))}
    [] OTHER -> {Absent, Str(Chars("x"))}

Candidates ==
  {Entry("h.t", h) \o Entry("zz.extra", x) \o Entry("s.p", p) \o Entry("tags", t) :
     h \in CandidateValues("h.t"), x \in CandidateValues("zz.extra"),
     p \in CandidateValues("s.p"), t \in CandidateValues("tags")}

\* translate at the first validation round, over any of these candidates
InitCandidates ==
  /\ targetLang \in {"pl", "ja"}
  /\ force = TRUE
  /\ regenGlossary = FALSE
  /\ outFile = NoFile
  /\ glossaryFile = NoFile
  /\ source = EnJson
  /\ logFile = NoFile
  /\ pc = "validate"
  /\ glossary = <<>>
  /\ translated \in Candidates
  /\ log = [totalTokensIn |-> 0, totalTokensOut |-> 0, result |-> Null, phases |-> <<>>]
  /\ bi = 1
  /\ ki = 1
  /\ round = 1
  /\ errors = <<>>
  /\ failedKeys = <<>>
  /\ technicallyClean = FALSE
  /\ sround = 1
  /\ issues = <<>>
  /\ fix = NoFix
  /\ applied = 0
  /\ calls = [kind \in CallKinds |-> 0]
  /\ response = NoResponse
  /\ warnings = <<>>
  /\ targetLangs = <<>>
  /\ finished = <<>>
  /\ langs = {}
  /\ req = NoRequest
  /\ res = NoAnswer

ValidateSpec == InitCandidates /\ [][ValidateRound]_vars

\* Sources of a single string key: the paragraph of the first body section,
\* longer than 30 characters, its heading, or a title that is in no batch.
SingleKeySources ==
  { << [k |-> "s.p", v |-> Str(Chars("The loop <em>closes</em> on itself."))] >>,
    << [k |-> "h.t", v |-> Str(Chars("The Loop"))] >>,
    << [k |-> "t", v |-> Str(Chars("Hello"))] >> }

\* translate started on one of them
InitSingle ==
  /\ \E inv \in Invocations :
       /\ targetLang = inv.targetLang
       /\ force = inv.force
       /\ regenGlossary = inv.regenGlossary
       /\ outFile = inv.outFile
       /\ glossaryFile = inv.glossaryFile
  /\ source \in SingleKeySources
  /\ logFile = NoFile
  /\ pc = "start"
  /\ glossary = <<>>
  /\ translated = <<>>
  /\ log = [totalTokensIn |-> 0, totalTokensOut |-> 0, result |-> Null, phases |-> <<>>]
  /\ bi = 1
  /\ ki = 1
  /\ round = 1
  /\ errors = <<>>
  /\ failedKeys = <<>>
  /\ technicallyClean = FALSE
  /\ sround = 1
  /\ issues = <<>>
  /\ fix = NoFix
  /\ applied = 0
  /\ calls = [kind \in CallKinds |-> 0]
  /\ response = NoResponse
  /\ warnings = <<>>
  /\ targetLangs = <<>>
  /\ finished = <<>>
  /\ langs = {}
  /\ req = NoRequest
  /\ res = NoAnswer

SingleSpec == InitSingle /\ [][Next]_vars

\* A source of ten paragraphs longer than 30 characters and one short title,
\* and the candidates that repeat the source on some of the paragraphs and
\* translate the others; the title is repeated in all of them.
EssayLen == 10

EssayKey(i) == CASE i = 0 -> "p0" [] i = 1 -> "p1" [] i = 2 -> "p2" [] i = 3 -> "p3"
                 [] i = 4 -> "p4" [] i = 5 -> "p5" [] i = 6 -> "p6" [] i = 7 -> "p7"
                 [] i = 8 -> "p8" [] OTHER -> "p9"

EssayJson ==
  << [k |-> "b.t", v |-> Str(Chars("Loops"))] >>
  \o [i \in 1..EssayLen |->
        [k |-> EssayKey(i - 1),
         v |-> Str(Chars("Paragraph ") \o NatToStr(i - 1)
                     \o Chars(" of an essay about loops."))]]

EssayCandidates ==
  {<< [k |-> "b.t", v |-> Str(Chars("Loops"))] >>
   \o [i \in 1..EssayLen |->
         [k |-> EssayKey(i - 1),
          v |-> IF (i - 1) \in same THEN EssayJson[i + 1].v
                ELSE Str(Chars("Akapit ") \o NatToStr(i - 1)
                           \o Chars(" eseju o petlach, dlugi."))]] :
     same \in SUBSET (0..(EssayLen - 1))}

\* A source of two sentences with a protected name and one with a protected
\* title, and candidates that keep, inflect, drop or blank them.
NamesJson ==
  << [k |-> "n.han", v |-> Str(Chars("Byung-Chul Han wrote it."))],
     [k |-> "n.kat", v |-> Str(Chars("N. Katherine Hayles said so."))],
     [k |-> "t.age", v |-> Str(Chars("Read The Age of Surveillance Capitalism now."))] >>

NamesCandidates ==
  {<< [k |-> "n.han", v |-> Str(Chars(h))], [k |-> "n.kat", v |-> Str(Chars(n))],
      [k |-> "t.age", v |-> Str(Chars(t))] >> :
     h \in {"Napisal to Byung-Chul Han.", "Napisal to Byung-Chula Hana.",
            "Napisal to Hanowi.", "Napisal to filozof.", "  "},
     n \in {"Tak rzekla N. Katherine Hayles.", "Slowa Katheriny Haylesa.",
            "Tak rzekla Hayles.", "Tak rzekla K. H."},
     t \in {"Czytaj The Age of Surveillance Capitalism teraz.",
            "Czytaj Wiek kapitalizmu inwigilacji teraz.",
            "Czytaj the age of surveillance capitalism teraz.", " "}}

\* A source of one heading of SourceLen characters, and candidates of every
\* length up to MaxCandidateLen, past 250% of it, and a blank one.
SourceLen == 20
MaxCandidateLen == 51

LengthJson == << [k |-> "l.t", v |-> Str([i \in 1..SourceLen |-> "a"])] >>

LengthCandidates ==
  {<< [k |-> "l.t", v |-> Str([i \in 1..n |-> "b"])] >> : n \in 1..MaxCandidateLen}
  \cup {<< [k |-> "l.t", v |-> Str(Chars("  "))] >>}

\* The inputs of validate at the first validation round: the essay or the
\* sentences, for the target Polish and for the target 'en', the language of
\* the source (translate itself ends the process for a code that is not in
\* LANG_NAMES, 1025-1030; validate is defined for it by its targetLang !== 'en'
\* tests), or the heading, for the targets Polish, Japanese and Korean.
InitTexts ==
  /\ force = TRUE
  /\ regenGlossary = FALSE
  /\ outFile = NoFile
  /\ glossaryFile = NoFile
  /\ \/ /\ targetLang \in {"pl", "en"}
        /\ \/ source = EssayJson /\ translated \in EssayCandidates
           \/ source = NamesJson /\ translated \in NamesCandidates
     \/ /\ targetLang \in {"pl", "ja", "ko"}
        /\ source = LengthJson
        /\ translated \in LengthCandidates
  /\ logFile = NoFile
  /\ pc = "validate"
  /\ glossary = <<>>
  /\ log = [totalTokensIn |-> 0, totalTokensOut |-> 0, result |-> Null, phases |-> <<>>]
  /\ bi = 1
  /\ ki = 1
  /\ round = 1
  /\ errors = <<>>
  /\ failedKeys = <<>>
  /\ technicallyClean = FALSE
  /\ sround = 1
  /\ issues = <<>>
  /\ fix = NoFix
  /\ applied = 0
  /\ calls = [kind \in CallKinds |-> 0]
  /\ response = NoResponse
  /\ warnings = <<>>
  /\ targetLangs = <<>>
  /\ finished = <<>>
  /\ langs = {}
  /\ req = NoRequest
  /\ res = NoAnswer

TextsSpec == InitTexts /\ [][ValidateRound]_vars

\* The candidates the post-processing may be handed after a clean validation
\* and review: the keys of the source in any insertion order, the heading any
\* short text of letters, straight quotes and typographic quotes.
MaxQuoteLen == 4

QuoteAlphabet == {"a", "\"", "U+201E", "U+201D", "U+201C"}

QuoteStrings == UNION {[1..n -> QuoteAlphabet] : n \in 1..MaxQuoteLen}

Orders(seq) ==
  {[i \in 1..Len(seq) |-> seq[f[i]]] :
     f \in {g \in [1..Len(seq) -> 1..Len(seq)] :
              \A i, j \in 1..Len(seq) : g[i] = g[j] => i = j}}

SaveCandidates ==
  UNION {Orders(<< [k |-> "h.t", v |-> Str(q)],
                   [k |-> "s.p", v |-> Str(Chars("Petla <em>zamyka</em> sie sama."))],
                   [k |-> "tags", v |-> Arr(<<Chars("petla"), Chars("forma")>>)] >>) :
           q \in QuoteStrings}

\* translate at the post-processing, for any of the languages
InitSave ==
  /\ targetLang \in LANG_NAMES
  /\ force = TRUE
  /\ regenGlossary = FALSE
  /\ outFile = NoFile
  /\ glossaryFile = NoFile
  /\ source = EnJson
  /\ logFile = NoFile
  /\ pc = "save"
  /\ glossary = <<>>
  /\ translated \in SaveCandidates
  /\ log = [totalTokensIn |-> 0, totalTokensOut |-> 0, result |-> Null, phases |-> <<>>]
  /\ bi = 1
  /\ ki = 1
  /\ round = 1
  /\ errors = <<>>
  /\ failedKeys = <<>>
  /\ technicallyClean = TRUE
  /\ sround = 1
  /\ issues = <<>>
  /\ fix = NoFix
  /\ applied = 0
  /\ calls = [kind \in CallKinds |-> 0]
  /\ response = NoResponse
  /\ warnings = <<>>
  /\ targetLangs = <<>>
  /\ finished = <<>>
  /\ langs = {}
  /\ req = NoRequest
  /\ res = NoAnswer

SaveSpec == InitSave /\ [][Save]_vars

\* Runs of one language one after the other, none with --regen-glossary: each
\* run finds the translation file and the glossary file as the run before
\* left them, and writes a log file of its own.
InitRuns ==
  /\ targetLang = "pl"
  /\ force \in BOOLEAN
  /\ regenGlossary = FALSE
  /\ outFile = NoFile
  /\ glossaryFile \in {NoFile, CorruptFile}
  /\ source = EnJson
  /\ logFile = NoFile
  /\ pc = "start"
  /\ glossary = <<>>
  /\ translated = <<>>
  /\ log = [totalTokensIn |-> 0, totalTokensOut |-> 0, result |-> Null, phases |-> <<>>]
  /\ bi = 1
  /\ ki = 1
  /\ round = 1
  /\ errors = <<>>
  /\ failedKeys = <<>>
  /\ technicallyClean = FALSE
  /\ sround = 1
  /\ issues = <<>>
  /\ fix = NoFix
  /\ applied = 0
  /\ calls = [kind \in CallKinds |-> 0]
  /\ response = NoResponse
  /\ warnings = <<>>
  /\ targetLangs = <<>>
  /\ finished = <<>>
  /\ langs = {}
  /\ req = NoRequest
  /\ res = NoAnswer

\* main is started again for the same language
NextRun ==
  /\ pc = "done"
  /\ force' \in BOOLEAN
  /\ logFile' = NoFile
  /\ pc' = "start"
  /\ glossary' = <<>>
  /\ translated' = <<>>
  /\ log' = [totalTokensIn |-> 0, totalTokensOut |-> 0, result |-> Null, phases |-> <<>>]
  /\ bi' = 1
  /\ ki' = 1
  /\ round' = 1
  /\ errors' = <<>>
  /\ failedKeys' = <<>>
  /\ technicallyClean' = FALSE
  /\ sround' = 1
  /\ issues' = <<>>
  /\ fix' = NoFix
  /\ applied' = 0
  /\ calls' = [kind \in CallKinds |-> 0]
  /\ response' = NoResponse
  /\ warnings' = <<>>
  /\ UNCHANGED <<targetLang, regenGlossary, source, outFile, glossaryFile,
                 targetLangs, finished, server>>

NextRuns == Next \/ NextRun

RunsSpec == InitRuns /\ [][NextRuns]_vars

\* One invocation for two languages, Polish and Japanese, with or without
\* --force: main calls translate for one after the other.  The first has no
\* file on disk, the second a glossary, and its translation file may exist.
\* faulty variant: a failed run ends the loop
MainLoopStopsOnFailure(result, rest) ==
  IF rest = <<>> \/ result = "failed" THEN "exit" ELSE "next"

\* main's loop over targetLangs once translate has returned: the next
\* language, or the end of main
MainLoop(result, rest) == IF rest = <<>> THEN "exit" ELSE "next"

InitLangs ==
  /\ targetLang = "pl"
  /\ force \in BOOLEAN
  /\ regenGlossary = FALSE
  /\ outFile = NoFile
  /\ glossaryFile = NoFile
  /\ source = EnJson
  /\ logFile = NoFile
  /\ pc = "start"
  /\ glossary = <<>>
  /\ translated = <<>>
  /\ log = [totalTokensIn |-> 0, totalTokensOut |-> 0, result |-> Null, phases |-> <<>>]
  /\ bi = 1
  /\ ki = 1
  /\ round = 1
  /\ errors = <<>>
  /\ failedKeys = <<>>
  /\ technicallyClean = FALSE
  /\ sround = 1
  /\ issues = <<>>
  /\ fix = NoFix
  /\ applied = 0
  /\ calls = [kind \in CallKinds |-> 0]
  /\ response = NoResponse
  /\ warnings = <<>>
  /\ \E out \in {NoFile, File(PublishedTranslation)} :
       targetLangs = << Invocation("ja", force, FALSE, out, File(CachedGlossary)) >>
  /\ finished = <<>>
  /\ langs = {}
  /\ req = NoRequest
  /\ res = NoAnswer

\* translate has returned and main calls it for the next language
NextLang ==
  /\ pc = "done"
  /\ MainLoop(log.result, targetLangs) = "next"
  /\ targetLang' = Head(targetLangs).targetLang
  /\ outFile' = Head(targetLangs).outFile
  /\ glossaryFile' = Head(targetLangs).glossaryFile
  /\ targetLangs' = Tail(targetLangs)
  /\ finished' = Append(finished, [targetLang |-> targetLang, result |-> log.result,
                                   written |-> outFile.exists])
  /\ logFile' = NoFile
  /\ pc' = "start"
  /\ glossary' = <<>>
  /\ translated' = <<>>
  /\ log' = [totalTokensIn |-> 0, totalTokensOut |-> 0, result |-> Null, phases |-> <<>>]
  /\ bi' = 1
  /\ ki' = 1
  /\ round' = 1
  /\ errors' = <<>>
  /\ failedKeys' = <<>>
  /\ technicallyClean' = FALSE
  /\ sround' = 1
  /\ issues' = <<>>
  /\ fix' = NoFix
  /\ applied' = 0
  /\ calls' = [kind \in CallKinds |-> 0]
  /\ response' = NoResponse
  /\ warnings' = <<>>
  /\ UNCHANGED <<force, regenGlossary, source, server>>

\* translate has returned for the last language: main returns
MainReturn ==
  /\ pc = "done"
  /\ MainLoop(log.result, targetLangs) = "exit"
  /\ pc' = "exit"
  /\ finished' = Append(finished, [targetLang |-> targetLang, result |-> log.result,
                                   written |-> outFile.exists])
  /\ UNCHANGED <<targetLang, force, regenGlossary, source, outFile, glossaryFile, logFile,
                 glossary, translated, log, bi, ki, round, errors, failedKeys,
                 technicallyClean, sround, issues, fix, applied, calls, response,
                 warnings, targetLangs, server>>

NextLangs == Next \/ NextLang \/ MainReturn

LangsSpec == InitLangs /\ [][NextLangs]_vars

\* ------------------------------------------------------------ the server
\* server.js answers GET requests from the translations it loaded at startup.
\* A request is taken as routed by Express under strict routing: '/:lang/'
\* and '/:lang' with the decoded parameter, and '/'.

\* the variables of the translation script
script ==
  <<targetLang, force, regenGlossary, source, outFile, glossaryFile, logFile, pc,
    glossary, translated, log, bi, ki, round, errors, failedKeys, technicallyClean,
    sround, issues, fix, applied, calls, response, warnings, targetLangs, finished>>

\* req.get('Accept-Language'): undefined without the header
Header(value) == [present |-> TRUE, value |-> Chars(value)]
NoHeader == [present |-> FALSE, value |-> <<>>]

\* the leading decimal digits of s
RECURSIVE DigitsPrefix(_)
DigitsPrefix(s) ==
  IF s # <<>> /\ s[1] \in DigitSet THEN <<s[1]>> \o DigitsPrefix(Tail(s)) ELSE <<>>

\* the number a sequence of decimal digits writes
RECURSIVE DigitsValue(_)
DigitsValue(d) ==
  IF d = <<>> THEN 0
  ELSE 10 * DigitsValue(SubSeq(d, 1, Len(d) - 1))
       + (CHOOSE n \in 0..9 : DIGIT[n + 1] = d[Len(d)])

\* parseFloat(s) for a decimal without exponent, in thousandths (up to three
\* decimals are kept): NaN when no digit leads
parseFloat(s) ==
  LET t == TrimLeft(s)
      signed == t # <<>> /\ t[1] \in {"+", "-"}
      u == IF signed THEN Tail(t) ELSE t
      whole == DigitsPrefix(u)
      r == SubSeq(u, Len(whole) + 1, Len(u))
      frac == IF r # <<>> /\ r[1] = "." THEN DigitsPrefix(Tail(r)) ELSE <<>>
      milli == 1000 * DigitsValue(whole)
               + DigitsValue(SubSeq(frac \o Chars("000"), 1, 3))
  IN  IF whole = <<>> /\ frac = <<>> THEN [nan |-> TRUE, milli |-> 0]
      ELSE [nan |-> FALSE, milli |-> IF signed /\ t[1] = "-" THEN 0 - milli ELSE milli]

\* detectLang: one part of the header as { lang, q }
HeaderItem(part) ==
  LET pieces == SplitOn(trim(part), Chars(";q="), <<>>)
      locale == pieces[1]
  IN  [lang |-> toLowerCase(substring(trim(locale), 0, 2)),
       q |-> IF Len(pieces) >= 2 /\ pieces[2] # <<>> THEN parseFloat(pieces[2])
             ELSE [nan |-> FALSE, milli |-> 1000]]

\* items.sort((a, b) => b.q - a.q): stable, greatest q first
RECURSIVE SortByQ(_)
SortByQ(items) ==
  IF items = <<>> THEN <<>>
  ELSE LET sorted == SortByQ(SubSeq(items, 1, Len(items) - 1))
           x == items[Len(items)]
           ahead == SelectSeq(sorted, LAMBDA y : y.q.milli >= x.q.milli)
           behind == SelectSeq(sorted, LAMBDA y : y.q.milli < x.q.milli)
       IN  ahead \o <<x>> \o behind

\* items.find(item => langs.includes(item.lang)), and 'en' without one
FirstLoaded(items, loaded) ==
  LET found == SelectSeq(items, LAMBDA item : item.lang \in loaded)
  IN  IF found = <<>> THEN Chars("en") ELSE found[1].lang

\* faulty variant: the first language of the header is taken, loaded or not
detectLangUnloaded(header, loaded) ==
  IF ~header.present \/ header.value = <<>> THEN {Chars("en")}
  ELSE {HeaderItem(SplitOn(header.value, <<",">>, <<>>)[1]).lang}

\* detectLang(req): the languages it can return.  With a q that parseFloat
\* reads as NaN the comparison function is not consistent and the order
\* after sort is left to the implementation: any order is taken then.
detectLang(header, loaded) ==
  IF ~header.present \/ header.value = <<>> THEN {Chars("en")}
  ELSE LET parts == SplitOn(header.value, <<",">>, <<>>)
           items == [i \in 1..Len(parts) |-> HeaderItem(parts[i])]
       IN  IF \E i \in 1..Len(items) : items[i].q.nan
           THEN {FirstLoaded(o, loaded) : o \in Orders(items)}
           ELSE {FirstLoaded(SortByQ(items), loaded)}

\* LANG_RE.test(lang) for /^[a-z]{2}$/
LANG_RE(lang) == Len(lang) = 2 /\ lang[1] \in LowerSet /\ lang[2] \in LowerSet

\* res.status(404).send, res.redirect(301, location), res.render('page')
NotFound == [status |-> 404, location |-> <<>>, rendered |-> <<>>]
Redirect(location) == [status |-> 301, location |-> location, rendered |-> <<>>]
Rendered(lang) == [status |-> 200, location |-> <<>>, rendered |-> lang]

\* The translation files found in the locales directory at startup, the
\* decoded path parameters and the Accept-Language headers of the requests.
LoadedLanguages ==
  { {Chars("en")}, {Chars("en"), Chars("pl")}, {Chars("en"), Chars("pl"), Chars("ja")},
    {Chars("pl")}, {Chars("en"), Chars("zh-TW")} }

PathParams ==
  { Chars("en"), Chars("pl"), Chars("ja"), Chars("zz"), Chars("de"), Chars("EN"),
    Chars("e1"), Chars("abc"), Chars("e"), Chars(".."), Chars("zh-TW"),
    <<"p", "l", "\n">> }

AcceptLanguages ==
  { NoHeader, Header(""), Header("pl"), Header("pl-PL,pl;q=0.9,en;q=0.8"),
    Header("de, ja;q=0.5, pl;q=0.7"), Header("fr;q=0.2,JA-jp;q=0.1"), Header("*"),
    Header("zh-TW,zh;q=0.9"), Header("ja;q=abc,pl") }

InitServer ==
  /\ targetLang = "pl"
  /\ force = FALSE
  /\ regenGlossary = FALSE
  /\ outFile = NoFile
  /\ glossaryFile = NoFile
  /\ source = EnJson
  /\ logFile = NoFile
  /\ pc = "done"
  /\ glossary = <<>>
  /\ translated = <<>>
  /\ log = [totalTokensIn |-> 0, totalTokensOut |-> 0, result |-> Null, phases |-> <<>>]
  /\ bi = 1
  /\ ki = 1
  /\ round = 1
  /\ errors = <<>>
  /\ failedKeys = <<>>
  /\ technicallyClean = FALSE
  /\ sround = 1
  /\ issues = <<>>
  /\ fix = NoFix
  /\ applied = 0
  /\ calls = [kind \in CallKinds |-> 0]
  /\ response = NoResponse
  /\ warnings = <<>>
  /\ targetLangs = <<>>
  /\ finished = <<>>
  /\ langs \in LoadedLanguages
  /\ req = NoRequest
  /\ res = NoAnswer

\* app.get('/'): the root redirect
RootRoute ==
  /\ \E header \in AcceptLanguages :
       /\ req' = [route |-> "/", lang |-> <<>>, acceptLanguage |-> header]
       /\ \E lang \in detectLang(header, langs) :
            res' = Redirect(<<"/">> \o lang \o <<"/">>)
  /\ UNCHANGED <<script, langs>>

\* app.get('/:lang/'): the page route
PageRoute ==
  /\ \E lang \in PathParams, header \in AcceptLanguages :
       /\ req' = [route |-> "/:lang/", lang |-> lang, acceptLanguage |-> header]
       /\ IF ~LANG_RE(lang) THEN res' = NotFound
          ELSE IF lang \notin langs
          THEN \E detected \in detectLang(header, langs) :
                 res' = Redirect(<<"/">> \o detected \o <<"/">>)
          ELSE res' = Rendered(lang)
  /\ UNCHANGED <<script, langs>>

\* app.get('/:lang'): the trailing slash redirect
TrailingSlashRoute ==
  /\ \E lang \in PathParams, header \in AcceptLanguages :
       /\ req' = [route |-> "/:lang", lang |-> lang, acceptLanguage |-> header]
       /\ res' = IF LANG_RE(lang) THEN Redirect(<<"/">> \o lang \o <<"/">>) ELSE NotFound
  /\ UNCHANGED <<script, langs>>

NextServer == RootRoute \/ PageRoute \/ TrailingSlashRoute

ServerSpec == InitServer /\ [][NextServer]_vars

\* translate is one async function: it runs on until it returns, every request
\* to the Generation Backend being answered.  This is WF_vars(Next) written
\* out, with pc # "done" for ENABLED <<Next>>_vars: every position of the
\* function but the returned one has a next step.
FairSpec == Spec /\ ([]<>(pc = "done") \/ []<><<Next>>_vars)

\* ---------------------------------------------------------- properties

HasSecurity(errs) == Len(SecurityOnly(errs)) > 0

\* the strings of a value: itself, or the elements of an array
TextsOf(v) ==
  IF v.t = "string" THEN {v.v}
  ELSE IF v.t = "array" THEN {v.v[i] : i \in 1..Len(v.v)}
  ELSE {}

\* the strings of a candidate or of a file's content
AllTexts(o) == UNION {TextsOf(o[i].v) : i \in 1..Len(o)}

\* a string the security scan (checks 11-15) objects to
Tainted(t) == SecurityErrors(Null, t) # <<>>

\* a string with a match of a dangerous pattern or a tag off the allow-list
MatchesDangerous(t) ==
  \E i \in 1..Len(DANGEROUS_PATTERNS) :
    RegexTest(DANGEROUS_PATTERNS[i].pat, t, DANGEROUS_PATTERNS[i].ci)

DisallowedTag(t) ==
  LET found == TagNames(t, 1)
  IN  \E i \in 1..Len(found) :
        \A j \in 1..Len(ALLOWED_TAGS) : Chars(ALLOWED_TAGS[j]) # toLowerCase(found[i])

\* the translation files a run can find on disk
FilesFound == {inv.outFile : inv \in Invocations}

\* C1: the translation file changes only in a step taken after a validation
\* round returned zero errors, and that step ends the run with 'success'; the
\* step that ends a run with 'failed' leaves the file as it is; and a run
\* takes no step once its result is set, so a failed run never wrote the file
\* and a file found on disk is unchanged.
C1_FileWrittenOnlyAfterCleanRound ==
  [][ /\ log.result = Null
      /\ outFile' # outFile =>
            (technicallyClean /\ errors = <<>> /\ log'.result = "success")
      /\ log'.result = "failed" => outFile' = outFile ]_vars

\* a run with --force over an existing file has failed, the file is still there
C1_Witness ==
  /\ log.result = "failed"
  /\ force
  /\ outFile = File(PublishedTranslation)

\* C2: the content of the translation file written by a run, validated
\* again against the same source for the run's target language, has zero
\* errors.
C2_PersistedFileValid ==
  log.result = "success" =>
    validate(outFile.content, source, targetLang).errors = <<>>

\* C3: a validation round over a candidate that holds, in the value of some
\* key, a string the security scan objects to reports a 'SECURITY:' error and
\* ends the run as failed without writing the translation file.
C3_SecurityFatal ==
  [][ (pc = "validate" /\ \E t \in AllTexts(translated) : Tainted(t)) =>
        /\ HasSecurity(errors')
        /\ log'.result = "failed"
        /\ pc' = "done"
        /\ outFile' = outFile ]_vars

\* C4: no string of the translation file written by a run, the elements of
\* its arrays included, matches a dangerous pattern or holds a tag outside
\* the allow-list.
C4_PersistedFileScanned ==
  log.result = "success" =>
    \A t \in AllTexts(outFile.content) : ~MatchesDangerous(t) /\ ~DisallowedTag(t)

\* C5: a validation round whose report holds a 'SECURITY:' error ends the run
\* as failed in that very step, without a request to the Generation Backend,
\* and no request is made in any later step.
C5_SecurityAbortMakesNoCall ==
  [][ /\ (pc = "validate" /\ HasSecurity(errors')) =>
            (pc' = "done" /\ log'.result = "failed" /\ calls' = calls)
      /\ HasSecurity(errors) => calls' = calls ]_vars

\* a security error found in a re-validation, after a retry round
C5_Witness ==
  /\ HasSecurity(errors)
  /\ round > 1
  /\ pc = "done"

\* C6: MAX_ROUNDS is 3 and the round counter never exceeds it; a validation
\* is never followed directly by another one, the first one is round 1 and
\* each later one is entered from a retry round that advanced the counter, so
\* a run validates at most 3 times; the validation of round 3 that has errors
\* ends the run as failed without a request; and a retry round ends in a
\* validation of the next round.
C6_AtMostMaxRounds ==
  [][ /\ MAX_ROUNDS = 3
      /\ round' <= MAX_ROUNDS
      /\ pc = "validate" => pc' # "validate"
      /\ (pc' = "validate" /\ pc \notin {"validate", "retry"}) => round' = 1
      /\ (pc = "validate" /\ round = MAX_ROUNDS /\ errors' # <<>>) =>
            (pc' = "done" /\ log'.result = "failed" /\ calls' = calls)
      /\ (pc = "retry" /\ pc' # "retry") =>
            (pc' = "validate" /\ round' = round + 1) ]_vars

\* a run that failed in round 3 on errors that are no security errors
C6_Witness ==
  /\ pc = "done"
  /\ round = MAX_ROUNDS
  /\ log.result = "failed"
  /\ errors # <<>>
  /\ ~HasSecurity(errors)

\* C7: a semantic review or fix has been requested, or is about to be, only
\* if a validation round returned zero errors; and a run that ended without
\* one ended as failed, with no review and no fix requested and the
\* translation file as found on disk.
C7_SemanticPhaseOnlyAfterClean ==
  /\ (calls.review > 0 \/ calls.fix > 0 \/ pc \in {"review", "fix", "save"})
        => technicallyClean
  /\ (pc = "done" /\ log.result # Null /\ ~technicallyClean) =>
        /\ log.result = "failed"
        /\ calls.review = 0
        /\ calls.fix = 0
        /\ outFile \in FilesFound

\* a fix requested in a run that got clean only after a retry round
C7_Witness ==
  /\ technicallyClean
  /\ round > 1
  /\ calls.fix > 0

\* C8: once a validation round has returned zero errors the run goes on to
\* end with result 'success' and the translation file written from the
\* candidate.
C8_CleanRunSucceeds ==
  technicallyClean ~>
    (/\ pc = "done"
     /\ log.result = "success"
     /\ outFile = File(reorderKeys(translated, source)))

\* a run that ended in success after three reviews that all found issues
C8_Witness ==
  /\ pc = "done"
  /\ log.result = "success"
  /\ sround = MAX_SEMANTIC_ROUNDS
  /\ calls.review = MAX_SEMANTIC_ROUNDS
  /\ calls.fix >= MAX_SEMANTIC_ROUNDS

\* C9: a fix written into the candidate for a string key of the source
\* passes the per-string checks of validate for the run's target language.
C9_AcceptedFixPassesValidate ==
  (fix.accepted /\ Has(source, fix.key) /\ Get(source, fix.key).t = "string") =>
    StringErrors(fix.key, Get(source, fix.key).v, fix.value.v, targetLang) = <<>>

\* C10: the step that requests a fix for which validateValue reports an error
\* leaves the whole candidate as it was and does not count the fix as applied.
C10_RejectedFixReverted ==
  [][ (calls'.fix = calls.fix + 1 /\ Len(fix'.techErrors) > 0) =>
        (translated' = translated /\ applied' = applied /\ ~fix'.accepted) ]_vars

\* a fix was rejected in a round that had applied another one before
C10_Witness ==
  /\ Len(fix.techErrors) > 0
  /\ Has(translated, fix.key)
  /\ Get(translated, fix.key) # fix.value

\* C11: the step that gets a truncated answer (stop_reason max_tokens) to a
\* request for one body key leaves that key absent from the candidate and
\* the run unfinished.
C11_TruncatedKeyStaysAbsent ==
  [][ (calls'.translate = calls.translate + 1 /\ response'.stop = "max_tokens") =>
        /\ ~Has(translated', BATCHES_BODY[bi].keys[ki])
        /\ translated' = translated
        /\ log'.result = Null ]_vars

\* a run that does not stop at the existing translation file
PastFileCheck == ~(outFile.exists /\ ~force)

\* C12 as stated: every run that has ended has written its log, with a
\* terminal result.
C12_EveryRunWritesLog ==
  pc = "done" => (logFile.exists /\ logFile.content.result \in {"success", "failed"})

\* C12: the log file is written only once, by a step that ends the run, and
\* what is written is the log with its result set to 'success' or 'failed';
\* no step follows the write; and a run that does not stop at the existing
\* translation file (absent, or --force) writes the log in the step that ends
\* it.
C12_LogWrittenOnceAtEnd ==
  [][ /\ ~logFile.exists
      /\ logFile' # logFile =>
            /\ log'.result \in {"success", "failed"}
            /\ logFile' = File(log')
            /\ pc' = "done"
      /\ (pc' = "done" /\ PastFileCheck) => logFile'.exists ]_vars

\* the log of a failed run in which the glossary generation had failed too
C12_Witness ==
  /\ logFile.exists
  /\ logFile.content.result = "failed"
  /\ \E i \in 1..Len(logFile.content.phases) :
        logFile.content.phases[i] = "glossary: error"

\* the requests made to the Generation Backend in the run, of all kinds
TotalCalls ==
  calls.glossary + calls.translate + calls.batch + calls.retry + calls.review + calls.fix

\* C13: the token counts of the log are, at every moment and so in the log
\* file when it is written, the sums of the usage of all requests made so
\* far in the run, whatever became of their answers.
C13_LogCountsEveryCall ==
  /\ log.totalTokensIn = Usage.input_tokens * TotalCalls
  /\ log.totalTokensOut = Usage.output_tokens * TotalCalls
  /\ logFile.exists =>
        /\ logFile.content.totalTokensIn = Usage.input_tokens * TotalCalls
        /\ logFile.content.totalTokensOut = Usage.output_tokens * TotalCalls

\* a written log of a run that made requests of every kind, the glossary
\* answer and the batch answer among the rejected ones
C13_Witness ==
  /\ logFile.exists
  /\ \A kind \in CallKinds : calls[kind] > 0
  /\ \E i \in 1..Len(log.phases) : log.phases[i] = "glossary: error"

\* content holds every key the candidate shares with the source, with the
\* candidate's value
WholeTranslation(content, candidate) ==
  /\ {content[i].k : i \in 1..Len(content)} = KeySet(candidate) \cap KeySet(source)
  /\ \A i \in 1..Len(content) : content[i].v = Get(candidate, content[i].k)

\* C14: a step changes the glossary file only as the one glossary request of
\* the run, storing the whole glossary the run then uses, and the glossary
\* phase is never entered again; a step changes the translation file only as
\* the step that ends the run, storing every key of the candidate; no step
\* follows the end of the run.  So each file is written at most once.
C14_FilesWrittenOnceAndWhole ==
  [][ /\ pc # "done"
      /\ pc' = "glossary" => pc = "start"
      /\ calls'.glossary <= 1
      /\ glossaryFile' # glossaryFile =>
            /\ pc = "glossary" /\ pc' = "body"
            /\ calls'.glossary = calls.glossary + 1
            /\ glossaryFile' = File(glossary')
            /\ glossary' = GeneratedGlossary
      /\ outFile' # outFile =>
            /\ pc = "save" /\ pc' = "done"
            /\ outFile'.exists /\ outFile'.parses
            /\ WholeTranslation(outFile'.content, translated') ]_vars

\* both files written in one run: over a cached glossary under
\* --regen-glossary, and a translation of all three keys
C14_Witness ==
  /\ pc = "done"
  /\ regenGlossary
  /\ glossaryFile = File(GeneratedGlossary)
  /\ outFile.exists
  /\ Len(outFile.content) = Len(source)

\* C15 as stated: with a glossary file present and no --regen-glossary the
\* glossary phase makes no request and leaves the glossary file alone.
C15_ExistingGlossaryNoCall ==
  [][ (pc = "glossary" /\ glossaryFile.exists /\ ~regenGlossary) =>
        (calls' = calls /\ glossaryFile' = glossaryFile) ]_vars

\* C15: with a glossary file present that JSON.parse reads, and no
\* --regen-glossary, the glossary phase makes no request, leaves the file
\* alone and uses its content; and a step changes the glossary file only as
\* a glossary request whose answer is complete and parses to an object, the
\* glossary the run then uses.
C15_CachedGlossaryNoCall ==
  [][ /\ (pc = "glossary" /\ glossaryFile.exists /\ glossaryFile.parses
             /\ ~regenGlossary) =>
            /\ calls' = calls
            /\ glossaryFile' = glossaryFile
            /\ glossary' = glossaryFile.content
      /\ glossaryFile' # glossaryFile =>
            /\ calls'.glossary = calls.glossary + 1
            /\ response' = Response("end_turn", "object")
            /\ glossaryFile' = File(glossary') ]_vars

\* the cached glossary has been loaded
C15_Witness ==
  /\ pc = "body"
  /\ calls.glossary = 0
  /\ glossaryFile = File(CachedGlossary)
  /\ glossary = CachedGlossary

\* C16: in runs of one language one after the other, none with
\* --regen-glossary: a glossary request whose answer is complete and parses
\* to an object leaves a glossary file that JSON.parse reads; and from a
\* glossary file that JSON.parse reads on, in that run and all later ones,
\* no glossary request is made, the file keeps its content, and the glossary
\* phase of a run takes the file's content for the glossary.  So at most one
\* run generates the glossary with success.
C16_GlossaryGeneratedOnce ==
  [][ /\ ~regenGlossary
      /\ (calls'.glossary = calls.glossary + 1
             /\ response' = Response("end_turn", "object")) =>
            (glossaryFile'.exists /\ glossaryFile'.parses)
      /\ (glossaryFile.exists /\ glossaryFile.parses) =>
            /\ glossaryFile' = glossaryFile
            /\ calls'.glossary <= calls.glossary
            /\ pc = "glossary" => glossary' = glossaryFile.content ]_vars

\* a later run has loaded the glossary that an earlier run generated
C16_Witness ==
  /\ pc = "body"
  /\ calls.glossary = 0
  /\ glossaryFile = File(GeneratedGlossary)
  /\ glossary = GeneratedGlossary

\* C17: the step of a glossary request whose answer is truncated, does not
\* parse, or parses to something that is no object, goes on to the body
\* batches with the empty glossary, leaves the glossary file as it is, logs
\* the error and does not end the run.
C17_GlossaryFailureNotFatal ==
  [][ (calls'.glossary = calls.glossary + 1
         /\ response' # Response("end_turn", "object")) =>
        /\ pc' = "body"
        /\ glossary' = <<>>
        /\ glossaryFile' = glossaryFile
        /\ log'.result = Null
        /\ log'.phases = Append(log.phases, "glossary: error") ]_vars

\* a run under --regen-glossary whose generation failed has ended in success,
\* the cached glossary file still as it was
C17_Witness ==
  /\ log.result = "success"
  /\ outFile.exists
  /\ calls.glossary = 1
  /\ glossary = <<>>
  /\ glossaryFile = File(CachedGlossary)

\* C18: once a validation round has returned, in every later state of the
\* run, every key of the candidate is a key of the source.
C18_CandidateKeysWithinSource ==
  pc \in {"retry", "review", "fix", "save", "done"} =>
    KeySet(translated) \subseteq KeySet(source)

\* the elements of a sequence
Range(seq) == {seq[i] : i \in 1..Len(seq)}

\* the keys of the source that the candidate lacks, in source order
MissingKeys == SelectSeq(Keys(source), LAMBDA k : ~Has(translated, k))

\* the errors of the last validate that begin with prefix
ErrorsStarting(prefix) == SelectSeq(errors, LAMBDA e : startsWith(e, Chars(prefix)))

\* the keys findFailedKeys takes from the errors of the last validate
RetryableKeys == Range(findFailedKeys(errors, source, translated, targetLang))

\* C19: after a validation round, if the candidate lacks keys of the source
\* there is exactly one 'Missing keys' error, it lists all of them separated
\* by ', ', and findFailedKeys puts each of them into the set of keys to
\* retry; if it lacks none there is no such error; and the retry round that
\* follows works on the keys findFailedKeys returned.
C19_MissingKeysOneError ==
  pc # "validate" =>
    /\ IF MissingKeys = <<>>
       THEN ErrorsStarting("Missing keys") = <<>>
       ELSE /\ ErrorsStarting("Missing keys") =
                 << Chars("Missing keys: ")
                      \o join([i \in 1..Len(MissingKeys) |-> Chars(MissingKeys[i])],
                              Chars(", ")) >>
            /\ Range(MissingKeys) \subseteq RetryableKeys
    /\ pc = "retry" => Range(failedKeys) = RetryableKeys

\* a retry round set up for a candidate that lacked two keys
C19_Witness ==
  /\ pc = "retry"
  /\ Len(MissingKeys) = 2
  /\ Range(MissingKeys) \subseteq Range(failedKeys)

\* the key is an array in the source and in the candidate
ArrayPair(key) ==
  /\ Get(source, key).t = "array"
  /\ Has(translated, key)
  /\ Get(translated, key).t = "array"

\* the errors of the last validate that name the key in quotes
ErrorsNaming(key) == SelectSeq(errors, LAMBDA e : includes(e, Quoted(Chars(key))))

\* C20: after a validation round, for every array key of the source whose
\* candidate value is an array: if the lengths differ exactly one error
\* names the key, it cites the expected and the actual length, and
\* findFailedKeys puts the key into the set of keys to retry; if the lengths
\* are equal no error names the key.
C20_ArrayLengthOneError ==
  pc # "validate" =>
    \A key \in {k \in KeySet(source) : ArrayPair(k)} :
      LET expected == Len(Get(source, key).v)
          got == Len(Get(translated, key).v)
      IN  IF expected # got
          THEN /\ ErrorsNaming(key) =
                    << Chars("Array length mismatch on ") \o Quoted(Chars(key))
                         \o Chars(": expected ") \o NatToStr(expected)
                         \o Chars(", got ") \o NatToStr(got) >>
               /\ key \in RetryableKeys
          ELSE ErrorsNaming(key) = <<>>

\* a retry round set up for the 3-element array given for a 2-element one
C20_Witness ==
  /\ pc = "retry"
  /\ ArrayPair("tags")
  /\ Len(Get(translated, "tags").v) = 3
  /\ "tags" \in Range(failedKeys)


\* the source strings longer than 30 characters
EligibleKeys ==
  {k \in KeySet(source) : Get(source, k).t = "string" /\ Len(Get(source, k).v) > 30}

\* those of them the candidate repeats unchanged
IdenticalKeys ==
  {k \in EligibleKeys : /\ Has(translated, k)
                        /\ Get(translated, k).t = "string"
                        /\ Get(translated, k).v = Get(source, k).v}

\* the aggregate errors of the last validate
AggregateErrors ==
  SelectSeq(errors, LAMBDA e :
    endsWith(e, Chars(" keys appear untranslated (identical to English)")))

\* C21: after a validation round there is exactly one aggregate error if the
\* target is not English and the candidate strings identical to their source
\* string are more than 30% of the source strings longer than 30 characters,
\* and none otherwise (so none for the target English, whatever the
\* candidate); and validating the candidate again gives the same errors.
C21_AggregateUntranslated ==
  pc # "validate" =>
    /\ Len(AggregateErrors) =
         IF /\ targetLang # "en"
            /\ 10 * Cardinality(IdenticalKeys) > 3 * Cardinality(EligibleKeys)
         THEN 1 ELSE 0
    /\ validate(translated, source, targetLang).errors = errors

\* a Polish candidate that repeats four of the ten paragraphs, reported once
C21_Witness ==
  /\ pc # "validate"
  /\ targetLang = "pl"
  /\ Cardinality(EligibleKeys) = 10
  /\ Cardinality(IdenticalKeys) = 4
  /\ Len(AggregateErrors) = 1


\* the candidate repeats the source string of the key
Repeats(key) ==
  /\ Has(translated, key)
  /\ Get(translated, key).t = "string"
  /\ Get(translated, key).v = Get(source, key).v

\* C22: for a target other than English and the source whose only key is a
\* paragraph longer than 30 characters, a validation round that finds the
\* paragraph repeated (the answer to the translation or to the last retry was
\* the source string) reports the aggregate error; before the last round it
\* sets up the retry of exactly that key, and at round MAX_ROUNDS the run ends
\* with result 'failed', the log written and the translation file untouched;
\* and a retry round set up for the key makes one retry request for it and
\* goes on to the next validation round.
C22_UntranslatedRunFails ==
  [][ /\ (pc = "validate" /\ targetLang # "en" /\ Keys(source) = <<"s.p">>
            /\ Repeats("s.p")) =>
          /\ Len(AggregateErrors') = 1
          /\ IF round < MAX_ROUNDS
             THEN pc' = "retry" /\ failedKeys' = <<"s.p">> /\ round' = round
             ELSE /\ pc' = "done"
                  /\ log'.result = "failed"
                  /\ logFile' = File(log')
                  /\ outFile' = outFile
      /\ (pc = "retry" /\ Keys(source) = <<"s.p">> /\ failedKeys = <<"s.p">>) =>
          /\ calls'["retry"] = calls["retry"] + 1
          /\ pc' = "validate"
          /\ round' = round + 1
          /\ outFile' = outFile ]_vars

\* the run over the single paragraph has failed in the last round, the
\* paragraph still repeated and no translation file on disk
C22_Witness ==
  /\ pc = "done"
  /\ Keys(source) = <<"s.p">>
  /\ targetLang = "pl"
  /\ round = MAX_ROUNDS
  /\ Repeats("s.p")
  /\ Len(AggregateErrors) = 1
  /\ log.result = "failed"
  /\ logFile = File(log)
  /\ ~outFile.exists


\* C23: in a run over a source of a single string key, a validation round
\* without errors leaves a candidate of exactly that key and goes on to the
\* semantic review; a first review that reports no issue leaves the candidate
\* as it is and goes on to saving; and saving ends the run with result
\* 'success' and a translation file that maps exactly the key of the source
\* to normalizeQuotes of the candidate's value.
C23_SingleKeySuccess ==
  [][ LET key == Keys(source)[1]
      IN  /\ (pc = "validate" /\ Len(errors') = 0) =>
              /\ pc' = "review"
              /\ Has(translated, key)
              /\ translated' = <<[k |-> key, v |-> Get(translated, key)]>>
          /\ (pc = "review" /\ sround = 1 /\ pc' = "save") =>
              translated' = translated
          /\ pc = "save" =>
              /\ pc' = "done"
              /\ log'.result = "success"
              /\ outFile' = File(<<[k |-> key,
                                    v |-> Str(normalizeQuotes(Get(translated, key).v,
                                                              targetLang))]>>) ]_vars

\* the run over {"t": "Hello"} has ended with success after one clean review
\* and no fix, and the file holds the answer under the key t only
C23_Witness ==
  /\ pc = "done"
  /\ Keys(source) = <<"t">>
  /\ log.result = "success"
  /\ calls["review"] = 1
  /\ calls["fix"] = 0
  /\ outFile = File(<<[k |-> "t", v |-> Str(Chars("Petla"))]>>)


\* C24: when the run has saved a candidate whose keys are the keys of the
\* source in some order, the keys of the file are the keys of the source in
\* the source's order, and each key has the value the candidate has for it.
C24_ReorderedAsSource ==
  (pc = "done" /\ outFile.exists /\ KeySet(translated) = KeySet(source)) =>
    /\ Keys(outFile.content) = Keys(source)
    /\ \A key \in KeySet(source) : Get(outFile.content, key) = Get(translated, key)

\* a saved candidate whose keys came in the reverse of the source's order
C24_Witness ==
  /\ pc = "done"
  /\ outFile.exists
  /\ Keys(translated) = <<"tags", "s.p", "h.t">>
  /\ Keys(source) = <<"h.t", "s.p", "tags">>
  /\ Keys(outFile.content) = Keys(source)


\* C25: after the post-processing has applied normalizeQuotes to the string
\* values of the candidate, applying normalizeQuotes for the same language to
\* any of them again changes nothing.
C25_NormalizeQuotesIdempotent ==
  pc = "done" =>
    \A i \in 1..Len(translated) :
      translated[i].v.t = "string" =>
        normalizeQuotes(translated[i].v.v, targetLang) = translated[i].v.v

\* the Polish heading of three straight quotes after normalization: one pair
\* converted, the third straight quote left over behind it
C25_Witness ==
  /\ pc = "done"
  /\ targetLang = "pl"
  /\ Get(translated, "h.t").v = <<"U+201E", "U+201D", "\"">>


\* the keys that are strings in the source and in the candidate
StringKeys ==
  {k \in KeySet(source) : /\ Get(source, k).t = "string"
                          /\ Has(translated, k)
                          /\ Get(translated, k).t = "string"}

\* the candidate's text for the key is blank
Blank(key) == trim(Get(translated, key).v) = <<>>

\* how often the text is among the errors of the last validate
Count(text) == Len(SelectSeq(errors, LAMBDA e : e = text))

\* the errors of the last validate that begin with prefix and name the key
ErrorsOn(prefix, key) ==
  SelectSeq(errors, LAMBDA e : startsWith(e, Chars(prefix) \o Quoted(Chars(key))))

\* the stem of a word as the rule gives it: the whole word up to 5
\* characters, else its first max(4, length - 2) characters
RuleStem(word) ==
  IF Len(word) <= 5 THEN word
  ELSE SubSeq(word, 1, IF Len(word) - 2 > 4 THEN Len(word) - 2 ELSE 4)

\* the protected names in the source text of the key, each with the stem of
\* one of its words of at least 3 characters that do not end in a period
RequiredStems(key) ==
  UNION {{<<PROTECTED_NAMES[n], RuleStem(w)>> :
            w \in {x \in Range(SplitWs(PROTECTED_NAMES[n], <<>>)) :
                     Len(x) >= 3 /\ x[Len(x)] # "."}} :
         n \in {m \in 1..Len(PROTECTED_NAMES) :
                  includes(Get(source, key).v, PROTECTED_NAMES[m])}}

MissingStems(key) ==
  {p \in RequiredStems(key) : ~includes(Get(translated, key).v, p[2])}

NameErrorText(key, name, stem) ==
  Chars("Protected name missing in ") \o Quoted(Chars(key)) \o Chars(": ")
    \o Quoted(name) \o Chars(" (stem ") \o Quoted(stem) \o Chars(" not found)")

\* for the key, one error for each missing stem and no other name error
NameErrorsAsRequired(key) ==
  /\ \A p \in RequiredStems(key) :
       Count(NameErrorText(key, p[1], p[2])) = IF p \in MissingStems(key) THEN 1 ELSE 0
  /\ Len(ErrorsOn("Protected name missing in ", key)) = Cardinality(MissingStems(key))

\* C26 as stated: after a validation round, every string key has one
\* protected-name error for each required stem its candidate text lacks, naming
\* the stem, and none when it lacks none.
C26_NameErrorsForEveryCandidate ==
  pc # "validate" => \A key \in StringKeys : NameErrorsAsRequired(key)

\* C26: after a validation round, every string key whose candidate text is
\* not blank has one protected-name error for each required stem the text
\* lacks, naming the stem, and none when it lacks none; a blank text has the
\* empty-translation error and no protected-name error.
C26_NameErrorsUnlessBlank ==
  pc # "validate" =>
    \A key \in StringKeys :
      IF Blank(key)
      THEN /\ ErrorsOn("Protected name missing in ", key) = <<>>
           /\ Len(ErrorsOn("Empty translation for ", key)) = 1
      ELSE NameErrorsAsRequired(key)

\* 'Hanowi' for 'Byung-Chul Han' is reported for the stem 'Byung-Ch' only,
\* and the inflected 'Katheriny Haylesa' is not reported
C26_Witness ==
  /\ pc # "validate"
  /\ source = NamesJson
  /\ Get(translated, "n.han").v = Chars("Napisal to Hanowi.")
  /\ ErrorsOn("Protected name missing in ", "n.han") =
       <<NameErrorText("n.han", Chars("Byung-Chul Han"), Chars("Byung-Ch"))>>
  /\ Get(translated, "n.kat").v = Chars("Slowa Katheriny Haylesa.")
  /\ ErrorsOn("Protected name missing in ", "n.kat") = <<>>

\* the protected titles in the source text of the key
RequiredTitles(key) ==
  {i \in 1..Len(PROTECTED_TITLES) : includes(Get(source, key).v, PROTECTED_TITLES[i])}

MissingTitles(key) ==
  {i \in RequiredTitles(key) : ~includes(Get(translated, key).v, PROTECTED_TITLES[i])}

TitleErrorText(key, title) ==
  Chars("Protected title missing in ") \o Quoted(Chars(key)) \o Chars(": ")
    \o Quoted(title)

\* for the key, one error for each missing title and no other title error
TitleErrorsAsRequired(key) ==
  /\ \A i \in RequiredTitles(key) :
       Count(TitleErrorText(key, PROTECTED_TITLES[i])) =
         IF i \in MissingTitles(key) THEN 1 ELSE 0
  /\ Len(ErrorsOn("Protected title missing in ", key)) = Cardinality(MissingTitles(key))

\* C27 as stated: after a validation round, every string key has exactly one
\* protected-title error naming T for each protected title T of its source
\* text that its candidate text does not contain verbatim, and none for a
\* title the candidate text contains.
C27_TitleErrorsForEveryCandidate ==
  pc # "validate" => \A key \in StringKeys : TitleErrorsAsRequired(key)

\* C27: the same for every string key whose candidate text is not blank; a
\* blank text has the empty-translation error and no protected-title error.
C27_TitleErrorsUnlessBlank ==
  pc # "validate" =>
    \A key \in StringKeys :
      IF Blank(key)
      THEN /\ ErrorsOn("Protected title missing in ", key) = <<>>
           /\ Len(ErrorsOn("Empty translation for ", key)) = 1
      ELSE TitleErrorsAsRequired(key)

\* the title in lower case is reported once as missing
C27_Witness ==
  /\ pc # "validate"
  /\ source = NamesJson
  /\ Get(translated, "t.age").v = Chars("Czytaj the age of surveillance capitalism teraz.")
  /\ ErrorsOn("Protected title missing in ", "t.age") =
       <<TitleErrorText("t.age", Chars("The Age of Surveillance Capitalism"))>>


\* C28: no step of a run changes the source document: what validate, the
\* retries, the semantic fixes, the normalization and the reordering change
\* is the candidate.
C28_SourceNeverMutated == [][source' = source]_vars

\* a run that retried a key, had extra keys deleted by validate, applied a
\* semantic fix and saved, the source still the document that was loaded
C28_Witness ==
  /\ pc = "done"
  /\ log.result = "success"
  /\ calls["retry"] > 0
  /\ calls["fix"] > 0
  /\ applied > 0
  /\ source = EnJson
  /\ Keys(outFile.content) = Keys(source)


\* the label of the phase the log holds last
LastPhase == IF Len(log.phases) = 0 THEN Null ELSE log.phases[Len(log.phases)]

\* C29: a run makes at most MAX_SEMANTIC_ROUNDS reviews; after a review that
\* reports no issue or fails the run goes on to saving; a review after the
\* first is made only when the round before applied a fix; and the candidate
\* that is about to be saved has been reviewed after its last accepted fix,
\* i.e. the last round either applied no fix or ended with its review.
C29_SemanticLoopPolicy ==
  /\ calls["review"] <= MAX_SEMANTIC_ROUNDS
  /\ LastPhase \in {"review: clean", "review: error"} => pc \in {"save", "done"}
  /\ (pc = "review" /\ sround > 1) => applied > 0
  /\ pc = "save" => (applied = 0 \/ LastPhase # "review: issues")


\* the array-typed values of the candidate, by key
ArrayValues(o) == {<<o[i].k, o[i].v>> : i \in {j \in 1..Len(o) : o[j].v.t = "array"}}

\* C30: the step that handles an issue whose key is no key of the source, or
\* whose source value is an array, makes no request, leaves the candidate as
\* it was and does not count a fix; and no step of the semantic phase adds or
\* removes a key of the candidate or changes one of its array values.
C30_SkippedIssuesAndKeysKept ==
  [][ /\ (pc = "fix" /\ (\/ issues[1].key \notin KeySet(source)
                         \/ Get(source, issues[1].key).t = "array")) =>
            (calls' = calls /\ translated' = translated /\ applied' = applied)
      /\ pc \in {"review", "fix"} =>
            /\ KeySet(translated') = KeySet(translated)
            /\ ArrayValues(translated') = ArrayValues(translated) ]_vars


\* the two candidates agree outside the keys
SameExcept(before, after, keys) ==
  \A k \in (KeySet(before) \cup KeySet(after)) \ keys :
    Has(before, k) /\ Has(after, k) /\ Get(before, k) = Get(after, k)

\* C31: the step that requests a derived batch either gets a truncated or
\* unparseable answer, and then leaves the candidate alone and turns to the
\* first key of the batch, or gets an object, and then changes the candidate
\* on keys of the batch only and makes no per-key request for the batch; and
\* each step of the per-key fallback makes one retryKey request for the next
\* key of the batch, writes the value into the candidate when the request
\* succeeds, changes no other key, and goes on to the next key until the
\* last key of the batch.
C31_DerivedBatchFallback ==
  [][ /\ pc = "derived" =>
           LET keys == BATCHES_DERIVED[bi].keys
           IN  /\ calls' = [calls EXCEPT !["batch"] = @ + 1]
               /\ IF response'.stop = "max_tokens" \/ response'.json = "invalid"
                  THEN pc' = "fallback" /\ ki' = 1 /\ bi' = bi /\ translated' = translated
                  ELSE /\ pc' # "fallback"
                       /\ SameExcept(translated, translated', Range(keys))
      /\ pc = "fallback" =>
           LET keys == BATCHES_DERIVED[bi].keys
               key == keys[ki]
           IN  /\ calls' = [calls EXCEPT !["retry"] = @ + 1]
               /\ SameExcept(translated, translated', {key})
               /\ IF response'.json \in {"array", "text"}
                  THEN Has(translated', key)
                  ELSE translated' = translated
               /\ IF ki < Len(keys)
                  THEN pc' = "fallback" /\ ki' = ki + 1 /\ bi' = bi
                  ELSE pc' # "fallback" ]_vars

\* the first validation round is reached after a failed batch request and the
\* two per-key requests of its fallback, both written into the candidate
C31_Witness ==
  /\ pc = "validate"
  /\ round = 1
  /\ calls["batch"] = 1
  /\ calls["retry"] = 2
  /\ Has(translated, "tags")
  /\ Has(translated, "meta.k")


\* the number of body keys that come before key k of batch b
RECURSIVE BodyKeysBefore(_, _)
BodyKeysBefore(b, k) ==
  IF b = 1 THEN k - 1
  ELSE Len(BATCHES_BODY[b - 1].keys) + BodyKeysBefore(b - 1, 1) + (k - 1)

TotalBodyKeys == BodyKeysBefore(Len(BATCHES_BODY) + 1, 1)

\* C32: the glossary request is made before any other request, and only
\* after the glossary phase is a translation requested; the body keys are
\* requested one by one in the order of the batches and of their keys, all
\* of them before the first derived batch, and the derived batches in their
\* order; every validation round finds all body keys and all derived batches
\* requested, and no batch translation follows a validation round; and the
\* translation file is written by the one step that normalizes the quotes
\* and reorders the keys of the candidate the semantic phase left, after
\* which the run makes no further request.
C32_PhaseOrder ==
  [][ /\ pc \in {"start", "glossary"} =>
           /\ calls = [kind \in CallKinds |-> 0]
           /\ \A kind \in CallKinds \ {"glossary"} : calls'[kind] = 0
      /\ calls'["translate"] # calls["translate"] =>
           /\ pc = "body"
           /\ calls["translate"] = BodyKeysBefore(bi, ki)
           /\ calls["batch"] = 0 /\ calls["retry"] = 0
      /\ calls'["batch"] # calls["batch"] =>
           /\ pc = "derived"
           /\ calls["translate"] = TotalBodyKeys
           /\ calls["batch"] = bi - 1
      /\ pc \in {"body", "derived", "fallback"} =>
           /\ errors = <<>> /\ ~technicallyClean /\ round = 1
           /\ calls["review"] = 0 /\ calls["fix"] = 0
      /\ pc = "validate" =>
           /\ calls["translate"] = TotalBodyKeys
           /\ calls["batch"] = Len(BATCHES_DERIVED)
           /\ pc' \notin {"body", "derived", "fallback"}
      /\ pc \in {"review", "fix"} => pc' \in {"review", "fix", "save"}
      /\ outFile' # outFile =>
           /\ pc = "save" /\ pc' = "done"
           /\ calls' = calls
           /\ outFile' = File(reorderKeys(NormalizeAll(translated, targetLang), source)) ]_vars

\* a run that went through all phases: the glossary, three body keys, the
\* derived batch, a validation, a review and the file
C32_Witness ==
  /\ pc = "done"
  /\ log.result = "success"
  /\ calls["glossary"] = 1
  /\ calls["translate"] = 3
  /\ calls["batch"] = 1
  /\ calls["review"] > 0
  /\ outFile.exists


\* the translations, if strings, of those keys of the batch before its i-th
\* that are among the given keys
EarlierTranslations(batch, i, among) ==
  LET ks == SelectSeq(SubSeq(batch.keys, 1, i - 1),
                      LAMBDA k : /\ k \in among
                                 /\ Has(translated, k)
                                 /\ Get(translated, k).t = "string")
  IN  [j \in 1..Len(ks) |-> [k |-> ks[j], v |-> Get(translated, ks[j]).v]]

\* C33: whenever the request for the key ki of the body batch bi is about to
\* be built, the sectionTL context translateKey builds for it holds exactly
\* the string translations of those keys of that batch before ki that the
\* source has and that are in the candidate, and so none of the key itself,
\* of a later key or of a key of another batch.
C33_ContextIsEarlierSourceKeys ==
  pc = "body" =>
    LET batch == BATCHES_BODY[bi]
        key == batch.keys[ki]
        context == SectionTL(batch, key, source, translated)
    IN  /\ context = EarlierTranslations(batch, ki, KeySet(source))
        /\ \A j \in ki..Len(batch.keys) : ~Has(context, batch.keys[j])

\* C33 as stated: the context holds the string translation of every earlier
\* key of the batch that is in the candidate, in the source or not.
C33_ContextIsEarlierKeys ==
  pc = "body" =>
    SectionTL(BATCHES_BODY[bi], BATCHES_BODY[bi].keys[ki], source, translated) =
      EarlierTranslations(BATCHES_BODY[bi], ki, Range(BATCHES_BODY[bi].keys))

\* the request for the second key of the first section is about to be built
\* and its context holds the translation of the first key
C33_Witness ==
  /\ pc = "body" /\ bi = 1 /\ ki = 2
  /\ SectionTL(BATCHES_BODY[1], "s.p", source, translated) =
       <<[k |-> "h.t", v |-> Chars("Petla")]>>


\* the keys of the source the errors of the last validate point at: the keys
\* it lacks, the keys an error on one key names in quotes, and, with the
\* aggregate error, the keys counted as untranslated
Implicated ==
  {k \in KeySet(source) :
     \/ ~Has(translated, k)
     \/ \E i \in 1..Len(errors) :
          /\ ~startsWith(errors[i], Chars("Missing keys:"))
          /\ includes(errors[i], Quoted(Chars(k)))
     \/ AggregateErrors # <<>> /\ k \in IdenticalKeys}

\* C34: a validation round before the last whose report has errors, none of
\* them a security error, queues for retry exactly the keys of the source its
\* errors point at, each once, and ends the loop only if there is none; each
\* step of the retry round then makes one retry request for the head of the
\* queue, changes the candidate at most on that key and takes it off the queue,
\* so that a queued key is never outside the source.
C34_RetryTargeting ==
  [][ /\ (pc = "validate" /\ errors' # <<>> /\ ~HasSecurity(errors') /\ round < MAX_ROUNDS) =>
           IF Implicated' = {}
           THEN pc' = "done"
           ELSE /\ pc' = "retry"
                /\ Range(failedKeys') = Implicated'
                /\ Len(failedKeys') = Cardinality(Implicated')
      /\ pc = "retry" =>
           /\ failedKeys # <<>>
           /\ Range(failedKeys) \subseteq KeySet(source)
           /\ calls' = [calls EXCEPT !["retry"] = @ + 1]
           /\ SameExcept(translated, translated', {failedKeys[1]})
           /\ failedKeys' = Tail(failedKeys)
           /\ failedKeys[1] \notin Range(failedKeys')
           /\ IF failedKeys' = <<>>
              THEN pc' = "validate" /\ round' = round + 1
              ELSE pc' = "retry" /\ round' = round
    ]_vars

\* a retry round for a lacking key, a key with an error of its own and an
\* untranslated paragraph has made its three requests (after the requests of
\* the fallback for the derived batch)
C34_Witness ==
  /\ pc = "validate" /\ round = 2
  /\ calls["retry"] = Len(BATCHES_DERIVED[1].keys) + 3
  /\ Len(ErrorsStarting("Missing keys:")) = 1
  /\ Len(ErrorsNaming("h.t")) = 1
  /\ AggregateErrors # <<>>
  /\ Len(errors) = 3


\* the least and the greatest percentage of the source length a candidate
\* may have for the target language of the run
MinPercent == IF targetLang \in {"ja", "zh", "ko", "zh-TW", "zh-CN", "zh-HK"} THEN 15 ELSE 40
MaxPercent == IF targetLang \in {"ja", "zh", "ko", "zh-TW", "zh-CN", "zh-HK"} THEN 150 ELSE 250

\* C35: after a validation round, for every key with a string in the source
\* and in the candidate, the source not empty and the candidate not blank,
\* the report has one 'Suspiciously short' error on the key if the candidate
\* is shorter than MinPercent of the source and none otherwise, one
\* 'Suspiciously long' error if it is longer than MaxPercent and none
\* otherwise; no warning speaks of the length, and with such an error the
\* round is not clean.
C35_LengthRatioPolicy ==
  pc # "validate" =>
    /\ \A k \in StringKeys :
         LET src == Get(source, k).v
             tgt == Get(translated, k).v
             short == 100 * Len(tgt) < MinPercent * Len(src)
             long == 100 * Len(tgt) > MaxPercent * Len(src)
         IN  (Len(src) > 0 /\ ~Blank(k)) =>
               /\ Len(ErrorsOn("Suspiciously short ", k)) = (IF short THEN 1 ELSE 0)
               /\ Len(ErrorsOn("Suspiciously long ", k)) = (IF long THEN 1 ELSE 0)
               /\ (short \/ long) => ~technicallyClean /\ pc # "review"
    /\ \A i \in 1..Len(warnings) : ~includes(warnings[i], Chars("Suspiciously"))

\* a round for a dense-script target has rejected a heading one character
\* longer than 150% of the source
C35_Witness ==
  /\ pc # "validate" /\ targetLang = "ja" /\ source = LengthJson
  /\ 2 * Len(Get(translated, "l.t").v) = 3 * SourceLen + 2
  /\ Len(ErrorsOn("Suspiciously long ", "l.t")) = 1
  /\ Len(errors) = 1


\* the log a run starts with
FreshLog == [totalTokensIn |-> 0, totalTokensOut |-> 0, result |-> Null, phases |-> <<>>]

\* C36: no language is begun before translate has returned for the one before
\* it; once it has, with whatever result, main goes on to the next language
\* if there is one (and returns only if there is none), and that run begins
\* with an empty candidate, an empty log with no log file, no glossary, no
\* request counted, the first round, and the files of its own language as
\* they were on disk, whatever the runs before it did.
C36_LanguagesInTurn ==
  [][ /\ pc # "done" =>
           /\ targetLang' = targetLang
           /\ targetLangs' = targetLangs
           /\ finished' = finished
      /\ pc = "done" =>
           /\ finished' = Append(finished, [targetLang |-> targetLang,
                                             result |-> log.result,
                                             written |-> outFile.exists])
           /\ IF targetLangs = <<>>
              THEN pc' = "exit"
              ELSE /\ pc' = "start"
                   /\ targetLang' = targetLangs[1].targetLang
                   /\ targetLangs' = Tail(targetLangs)
                   /\ outFile' = targetLangs[1].outFile
                   /\ glossaryFile' = targetLangs[1].glossaryFile
                   /\ logFile' = NoFile
                   /\ translated' = <<>>
                   /\ glossary' = <<>>
                   /\ log' = FreshLog
                   /\ errors' = <<>> /\ warnings' = <<>> /\ failedKeys' = <<>>
                   /\ round' = 1 /\ sround' = 1 /\ ~technicallyClean'
                   /\ \A kind \in CallKinds : calls'[kind] = 0
                   /\ source' = source /\ force' = force
    ]_vars

\* the run for Polish failed and wrote no file, and the run for Japanese
\* after it ended in success
C36_Witness ==
  /\ pc = "exit"
  /\ finished = << [targetLang |-> "pl", result |-> "failed", written |-> FALSE],
                   [targetLang |-> "ja", result |-> "success", written |-> TRUE] >>


\* exactly two lowercase letters
TwoLowercaseLetters(lang) ==
  /\ Len(lang) = 2
  /\ \A i \in 1..2 : \E j \in 1..26 : lang[i] = Chars("abcdefghijklmnopqrstuvwxyz")[j]

\* the language a redirect of the server leads to: the text between the
\* slashes of a location '/xx/'
RedirectTarget == SubSeq(res.location, 2, Len(res.location) - 1)

\* the header names the language: a part of it begins with its code, in
\* either case
NamedInHeader(lang) ==
  /\ req.acceptLanguage.present
  /\ \E i \in 1..Len(req.acceptLanguage.value) :
       /\ i = 1 \/ req.acceptLanguage.value[i - 1] \in {",", " "}
       /\ OccursAt(toLowerCase(req.acceptLanguage.value), lang, i)

\* C37: the page route renders only a loaded language, and renders the
\* language asked for; for a code of two lowercase letters that is not loaded
\* it answers 301 with the location '/xx/' where xx is a loaded language the
\* Accept-Language header names, or 'en'; for a parameter that is not two
\* lowercase letters it answers 404, and so does the route without the
\* trailing slash.
C37_ServingFallback ==
  /\ req.route = "/:lang/" =>
       /\ res.status \in {200, 301, 404}
       /\ res.status = 200 => res.rendered = req.lang /\ req.lang \in langs
       /\ (TwoLowercaseLetters(req.lang) /\ req.lang \in langs) => res.status = 200
       /\ (TwoLowercaseLetters(req.lang) /\ req.lang \notin langs) =>
            /\ res.status = 301
            /\ res.location = <<"/">> \o RedirectTarget \o <<"/">>
            /\ \/ RedirectTarget \in langs /\ NamedInHeader(RedirectTarget)
               \/ RedirectTarget = Chars("en")
       /\ ~TwoLowercaseLetters(req.lang) => res = NotFound
  /\ req.route = "/:lang" =>
       /\ ~TwoLowercaseLetters(req.lang) => res = NotFound
       /\ res.rendered = <<>>

\* '/zz/' was asked for with a header that prefers German, then Polish, then
\* Japanese, by a server that has English, Polish and Japanese: it redirects
\* to '/pl/'
C37_Witness ==
  /\ req.route = "/:lang/" /\ req.lang = Chars("zz")
  /\ req.acceptLanguage = Header("de, ja;q=0.5, pl;q=0.7")
  /\ langs = {Chars("en"), Chars("pl"), Chars("ja")}
  /\ res = Redirect(Chars("/pl/"))


\* C38: a validation round before the last whose report has errors, none of
\* them a security error, is followed by a retry round of at least one key,
\* never by the end of the run; so a run that fails without a security error
\* fails in round MAX_ROUNDS.
C38_RetryAlwaysIdentified ==
  [][ /\ (pc = "validate" /\ errors' # <<>> /\ ~HasSecurity(errors') /\ round < MAX_ROUNDS) =>
           /\ pc' = "retry"
           /\ failedKeys' # <<>>
           /\ log'.result = Null
      /\ (pc = "validate" /\ log'.result = "failed" /\ ~HasSecurity(errors')) =>
           /\ round = MAX_ROUNDS
           /\ errors' # <<>>
    ]_vars

\* a run has failed in the last round on a paragraph left untranslated and a
\* lacking key, after retry rounds for them
C38_Witness ==
  /\ pc = "done" /\ log.result = "failed" /\ round = MAX_ROUNDS
  /\ ~HasSecurity(errors)
  /\ AggregateErrors # <<>>
  /\ Len(ErrorsStarting("Missing keys:")) = 1
  /\ calls["retry"] >= 2 * (MAX_ROUNDS - 1)


\* C39: a step of a retry round whose request for an array key gets an answer
\* that is not a JSON array leaves the whole candidate as it was (the key
\* keeps its value or stays absent), sets no result, and the round goes on
\* with the next key of the queue, or with the next validation round after
\* the last.
C39_FailedRetryKeepsCandidate ==
  [][ (/\ pc = "retry"
       /\ SourceValue(failedKeys[1]).t = "array"
       /\ response'.json # "array") =>
        /\ translated' = translated
        /\ calls' = [calls EXCEPT !["retry"] = @ + 1]
        /\ failedKeys' = Tail(failedKeys)
        /\ log'.result = Null
        /\ IF failedKeys' = <<>> THEN pc' = "validate" /\ round' = round + 1
                                 ELSE pc' = "retry" /\ round' = round
    ]_vars

\* the retry for the array of the wrong length has just failed, the array is
\* still in the candidate and other keys wait for their retry
C39_Witness ==
  /\ pc = "retry" /\ response.json = "invalid"
  /\ failedKeys # <<>>
  /\ "tags" \notin Range(failedKeys)
  /\ Has(translated, "tags")
  /\ Len(Get(translated, "tags").v) # Len(Get(source, "tags").v)
  /\ Len(ErrorsOn("Array length mismatch on ", "tags")) = 1


\* C40: the step of a run that finds its translation file on disk and was not
\* given --force ends the run: no request has been or is made, nothing is
\* translated, and the translation file, the glossary file and the log file
\* are as they were, the log without a result.
C40_ExistingFileSkipsRun ==
  [][ (pc = "start" /\ outFile.exists /\ ~force) =>
        /\ pc' = "done"
        /\ TotalCalls = 0 /\ calls' = calls
        /\ outFile' = outFile
        /\ glossaryFile' = glossaryFile
        /\ logFile' = logFile /\ logFile = NoFile
        /\ log' = log /\ log.result = Null /\ log.phases = <<>>
        /\ translated' = <<>>
        /\ glossary' = glossary
    ]_vars

\* a run without --force has returned at once: the file of the run before is
\* there, there is no log file and no request was made
C40_Witness ==
  /\ pc = "done" /\ ~force
  /\ outFile.exists /\ outFile # File(PublishedTranslation)
  /\ TotalCalls = 0
  /\ logFile = NoFile /\ log.result = Null
  /\ translated = <<>>

=============================================================================
